---- MODULE Spec2Model ----
(***************************************************************************)
(* Model of the ReAct control loop of minimal_agent:                       *)
(*   agent/base.py        AgentBase (registry, parser, dispatcher)         *)
(*   agent/react_agent.py ReActAgent.run and ReActAgent.run_async          *)
(*   memory/base.py       ListMemory                                       *)
(*                                                                         *)
(* Text is modelled as a sequence of lexemes.  A lexeme is one of the      *)
(* marker keywords the code searches for, a whitespace character, or an    *)
(* identifier made of word characters.  The regular expressions of the     *)
(* code are evaluated on these sequences the way `re` evaluates them on    *)
(* the characters.                                                         *)
(***************************************************************************)
EXTENDS Integers, Sequences, FiniteSets, TLC

(* ------------------------------ bounds -------------------------------- *)

\* largest value of config.max_iterations explored
MaxIter == 2

\* longest completion (in lexemes) of the exhaustive single-iteration client
MaxLen == 3

\* largest number of calls of run on one agent
MaxRuns == 2

\* length of the transcript of the ListMemory an agent is constructed
\* with, when it is not a new one
MaxPrior == 9

\* max_iterations of the agents whose model client asks for a tool at
\* every call
MaxLoop == 6

(* ----------------------------- lexemes -------------------------------- *)

Markers == {"Answer:", "Action:", "Thought:"}

WS == {" ", "\n"}

\* identifiers: lexemes made of word characters (\w) only
Words == {"calc", "search", "compute", "done", "hm", "4"}

\* a character that is neither whitespace nor a word character
Punct == {"."}

\* lexemes of the exhaustively enumerated completions
Alphabet == Markers \cup WS \cup Punct \cup {"calc"}

\* the marker that announces the arguments of a tool call
InputMarker == "Action Input:"

\* complete JSON string literals
StrWhole == {"\"a\"", "\"b\""}

\* the two ends of a string literal whose characters include lexemes of
\* their own, as in "x}y": the opening quote with the characters up to
\* the first such lexeme, and the characters after the last one with the
\* closing quote
StrOpen == {"\"x"}

StrClose == {"y\""}

\* lexemes that hold a double quote
Quoted == StrWhole \cup StrOpen \cup StrClose

\* lexemes made of digits
Digits == {"4"}

\* lexemes that hold a colon; the colon is their last character
ColonToks == Markers \cup {InputMarker, ":"}

\* a lexeme whose first character is a word character (\w)
IsWordStart(tok) == tok \in Words \cup Markers \cup {InputMarker} \cup StrClose

\* the maximal run of word characters a lexeme starts with
WordPart(tok) ==
  CASE tok = "Answer:" -> "Answer"
    [] tok = "Action:" -> "Action"
    [] tok = "Thought:" -> "Thought"
    [] tok = InputMarker -> "Action"
    [] tok = "y\"" -> "y"
    [] OTHER -> tok

\* the characters of a lexeme before its colon
BeforeColon(tok) ==
  CASE tok = ":" -> <<>>
    [] tok = InputMarker -> <<"Action Input">>
    [] OTHER -> <<WordPart(tok)>>

\* the characters of a quoted lexeme without its quotes
Unquote(tok) ==
  CASE tok = "\"a\"" -> "a"
    [] tok = "\"b\"" -> "b"
    [] tok = "\"x" -> "x"
    [] tok = "y\"" -> "y"
    [] OTHER -> tok

Min(S) == CHOOSE x \in S : \A y \in S : x <= y

\* Body applied to the value of x, which is worked out once
With(x, Body(_)) == CHOOSE r \in {Body(v) : v \in {x}} : TRUE

\* `marker in text`
Contains(text, marker) == \E i \in 1..Len(text) : text[i] = marker

\* str.strip(): whitespace removed at both ends
Strip(text) ==
  LET nonws == {i \in 1..Len(text) : text[i] \notin WS}
  IN  IF nonws = {} THEN <<>>
      ELSE LET lo == Min(nonws)
               hi == CHOOSE h \in nonws : \A y \in nonws : y <= h
           IN  SubSeq(text, lo, hi)

\* first position >= p that holds no whitespace (greedy \s*)
SkipWS(text, p) ==
  Min({j \in p..(Len(text) + 1) : j = Len(text) + 1 \/ text[j] \notin WS})

\* `$` without re.MULTILINE at position j (j is the index of the next
\* lexeme): the end of the text, or just before a final newline
AtDollar(text, j) ==
  \/ j = Len(text) + 1
  \/ j = Len(text) /\ text[j] = "\n"

\* re.search(r"Answer:\s*(.*?)(?:$|Thought:)", text, re.DOTALL).group(1)
\* for a text that contains "Answer:"
AnswerGroup(text) ==
  LET i == Min({j \in 1..Len(text) : text[j] = "Answer:"})
      p == SkipWS(text, i + 1)
      q == Min({j \in p..(Len(text) + 1) :
                  AtDollar(text, j) \/ (j <= Len(text) /\ text[j] = "Thought:")})
  IN  SubSeq(text, p, q - 1)

\* variant: the synchronous loop tests `"Answer:" in assistant_message` only
IsAnswerSyncAnswerOnly(text) == Contains(text, "Answer:")

\* the test of the synchronous loop that guards answer extraction
IsAnswerSync(text) == Contains(text, "Answer:") /\ ~Contains(text, "Action:")

\* the test of the asynchronous loop that guards answer extraction
IsAnswerAsync(text) == Contains(text, "Answer:")

\* variant: the captured group is stored without .strip()
ExtractAnswerNoStrip(text) == AnswerGroup(text)

\* answer_match.group(1).strip()
ExtractAnswer(text) == Strip(AnswerGroup(text))

(* ------------------------- _parse_tool_call --------------------------- *)

\* variant: a completion without a match is a call of a tool without name
NoCallIsCall == [tool |-> <<>>, found |-> TRUE, params |-> <<>>]

\* return None
NoCall == [tool |-> <<>>, found |-> FALSE, params |-> <<>>]

\* variant: the pattern r"Action:(\w+)", without \s*
ActionMatchesNoSpace(text) ==
  {i \in 1..Len(text) :
     text[i] = "Action:" /\ i + 1 <= Len(text) /\ IsWordStart(text[i + 1])}

\* positions where r"Action:\s*(\w+)" matches
ActionMatches(text) ==
  {i \in 1..Len(text) :
     /\ text[i] = "Action:"
     /\ LET p == SkipWS(text, i + 1)
        IN  p <= Len(text) /\ IsWordStart(text[p])}

\* group(1) of the match at position i: the greedy \w+ ; an identifier
\* lexeme is taken whole and the scan goes on, any other lexeme gives the
\* word characters it starts with and ends the scan
RECURSIVE WordRun(_, _)
WordRun(text, p) ==
  IF p > Len(text) \/ ~IsWordStart(text[p]) THEN <<>>
  ELSE IF text[p] \notin Words THEN <<WordPart(text[p])>>
  ELSE <<text[p]>> \o WordRun(text, p + 1)

\* positions where r"Action Input:\s*({.*?})" matches: the marker, optional
\* whitespace, an opening brace and, somewhere after it, a closing brace
InputMatches(text) ==
  {i \in 1..Len(text) :
     /\ text[i] = InputMarker
     /\ LET p == SkipWS(text, i + 1)
        IN  /\ p <= Len(text) /\ text[p] = "{"
            /\ \E q \in (p + 1)..Len(text) : text[q] = "}"}

\* group(1) of the first match: the lazy .*? ends at the first closing
\* brace after the opening one
InputGroup(text) ==
  LET i == Min(InputMatches(text))
      p == SkipWS(text, i + 1)
      q == Min({j \in (p + 1)..Len(text) : text[j] = "}"})
  IN  SubSeq(text, p, q)

\* a dict without keys
EmptyDict == <<>>

\* the result of a JSON scanner: whether it accepted, the position after
\* what it read, and the value read.  A value is <<"str", characters>>,
\* <<"int", digits>> or <<"dict", mapping>>
JsonFail == [ok |-> FALSE, pos |-> 0, val |-> <<>>]

JsonOk(pos, val) == [ok |-> TRUE, pos |-> pos, val |-> val]

\* a JSON string at position p: a complete literal, or an opening piece,
\* characters other than quotes and control characters, and a closing piece
JsonString(s, p) ==
  IF p > Len(s) THEN JsonFail
  ELSE IF s[p] \in StrWhole THEN JsonOk(p + 1, <<"str", <<Unquote(s[p])>> >>)
  ELSE IF s[p] \notin StrOpen THEN JsonFail
  ELSE LET stops == {j \in (p + 1)..Len(s) : s[j] \in Quoted \cup {"\n"}}
       IN  IF stops = {} THEN JsonFail
           ELSE LET j == Min(stops)
                IN  IF s[j] \notin StrClose THEN JsonFail
                    ELSE JsonOk(j + 1,
                                <<"str", <<Unquote(s[p])>> \o SubSeq(s, p + 1, j - 1)
                                           \o <<Unquote(s[j])>> >>)

\* a JSON number at position p: a run of digits
JsonNumber(s, p) ==
  LET q == Min({j \in p..(Len(s) + 1) : j = Len(s) + 1 \/ s[j] \notin Digits})
  IN  JsonOk(q, <<"int", SubSeq(s, p, q - 1)>>)

\* a JSON value at position p, and the members of an object from position
\* p on, added to the mapping acc (a later member replaces an earlier one
\* of the same key)
RECURSIVE JsonValue(_, _), JsonMembers(_, _, _)
JsonValue(s, p) ==
  IF p > Len(s) THEN JsonFail
  ELSE IF s[p] \in Digits THEN JsonNumber(s, p)
  ELSE IF s[p] \in StrWhole \cup StrOpen THEN JsonString(s, p)
  ELSE IF s[p] # "{" THEN JsonFail
  ELSE With(SkipWS(s, p + 1), LAMBDA q :
         IF q <= Len(s) /\ s[q] = "}" THEN JsonOk(q + 1, <<"dict", EmptyDict>>)
         ELSE JsonMembers(s, q, EmptyDict))

JsonMembers(s, p, acc) ==
  With(JsonString(s, p), LAMBDA k :
    IF ~k.ok THEN JsonFail
    ELSE With(SkipWS(s, k.pos), LAMBDA c :
      IF c > Len(s) \/ s[c] # ":" THEN JsonFail
      ELSE With(JsonValue(s, SkipWS(s, c + 1)), LAMBDA v :
        IF ~v.ok THEN JsonFail
        ELSE With(SkipWS(s, v.pos), LAMBDA e :
             With([x \in DOMAIN acc \cup {k.val[2]} |->
                     IF x = k.val[2] THEN v.val ELSE acc[x]], LAMBDA dict :
               IF e > Len(s) THEN JsonFail
               ELSE IF s[e] = "}" THEN JsonOk(e + 1, <<"dict", dict>>)
               ELSE IF s[e] = "," THEN JsonMembers(s, SkipWS(s, e + 1), dict)
               ELSE JsonFail)))))

\* json.loads(s): the value of the whole text, whitespace allowed around
\* it, or json.JSONDecodeError
JsonLoads(s) ==
  With(JsonValue(s, SkipWS(s, 1)), LAMBDA v :
    IF v.ok /\ SkipWS(s, v.pos) = Len(s) + 1 THEN v ELSE JsonFail)

\* str.split("\n")
RECURSIVE SplitLines(_)
SplitLines(text) ==
  LET nl == {j \in 1..Len(text) : text[j] = "\n"}
  IN  IF nl = {} THEN <<text>>
      ELSE <<SubSeq(text, 1, Min(nl) - 1)>>
             \o SplitLines(SubSeq(text, Min(nl) + 1, Len(text)))

\* `":" in line`
HasColon(line) == \E j \in 1..Len(line) : line[j] \in ColonToks

\* line.split(":", 1): the characters before the first colon and those
\* after it
SplitColon(line) ==
  LET c == Min({j \in 1..Len(line) : line[j] \in ColonToks})
  IN  [key |-> SubSeq(line, 1, c - 1) \o BeforeColon(line[c]),
       value |-> SubSeq(line, c + 1, Len(line))]

\* variant: key and value are stored as split, without .strip()
ParamEntryNoStrip(line) ==
  [key |-> SplitColon(line).key, value |-> <<"str", SplitColon(line).value>>]

\* key.strip() and value.strip() of a line with a colon; the value is a str
ParamEntry(line) ==
  [key |-> Strip(SplitColon(line).key),
   value |-> <<"str", Strip(SplitColon(line).value)>>]

\* the loop over the lines of the captured text: every line with a colon
\* sets params[key.strip()] = value.strip()
RECURSIVE LineParams(_, _)
LineParams(lines, acc) ==
  IF lines = <<>> THEN acc
  ELSE IF ~HasColon(lines[1]) THEN LineParams(Tail(lines), acc)
  ELSE LET e == ParamEntry(lines[1])
       IN  LineParams(Tail(lines),
                      [x \in DOMAIN acc \cup {e.key} |->
                         IF x = e.key THEN e.value ELSE acc[x]])

\* the except branch of _parse_tool_call
FallbackParams(group) == LineParams(SplitLines(Strip(group)), EmptyDict)

\* the try statement of _parse_tool_call on the captured text: what
\* json.loads returns, or the mapping of the except branch
ParseParams(group) ==
  With(JsonLoads(group), LAMBDA loaded :
    IF loaded.ok THEN loaded.val[2] ELSE FallbackParams(group))

\* variant: a completion without a match of the input pattern holds no
\* tool call
ParseToolCallInputRequired(text) ==
  IF ActionMatches(text) = {} \/ InputMatches(text) = {} THEN NoCall
  ELSE LET i == Min(ActionMatches(text))
           name == WordRun(text, SkipWS(text, i + 1))
       IN  With(InputGroup(text), LAMBDA group :
             [tool |-> name, found |-> TRUE, params |-> ParseParams(group)])

\* _parse_tool_call: None, or the tool name (the identifier as the
\* sequence of its pieces) and the argument mapping
ParseToolCall(text) ==
  IF ActionMatches(text) = {} THEN NoCall
  ELSE LET i == Min(ActionMatches(text))
           name == WordRun(text, SkipWS(text, i + 1))
       IN  IF InputMatches(text) = {}
           THEN [tool |-> name, found |-> TRUE, params |-> EmptyDict]
           ELSE With(InputGroup(text), LAMBDA group :
                  [tool |-> name, found |-> TRUE, params |-> ParseParams(group)])

(* ----------------------------- registry ------------------------------ *)

\* a tool: the name in its descriptor and the identity of its function
Tool(name, id) == [name |-> <<name>>, id |-> id]

\* tool lists an agent is constructed with
ToolLists ==
  { <<>>,
    <<Tool("calc", 1), Tool("search", 2)>>,
    <<Tool("calc", 1), Tool("calc", 2)>> }

\* variant: each key stays bound to the first tool of that name
BuildRegistryFirstWins(list) ==
  LET keep == {i \in 1..Len(list) :
                 \A j \in 1..(i - 1) : list[j].name # list[i].name}
      nth(k) == CHOOSE i \in keep : Cardinality({j \in keep : j < i}) = k - 1
  IN  [k \in 1..Cardinality(keep) |-> list[nth(k)]]

\* {tool._meta.name: tool for tool in tools}: keys in order of first
\* insertion, each key bound to the last tool of that name
RECURSIVE BuildRegistry(_)
BuildRegistry(list) ==
  IF list = <<>> THEN <<>>
  ELSE LET front == BuildRegistry(SubSeq(list, 1, Len(list) - 1))
           t == list[Len(list)]
       IN  IF \E i \in 1..Len(front) : front[i].name = t.name
           THEN [i \in 1..Len(front) |->
                   IF front[i].name = t.name THEN t ELSE front[i]]
           ELSE Append(front, t)

\* `tool_name in self.tools`
Registered(reg, name) == \E i \in 1..Len(reg) : reg[i].name = name

\* self.tools[tool_name]
Lookup(reg, name) == reg[CHOOSE i \in 1..Len(reg) : reg[i].name = name]

\* ', '.join(self.tools.keys())
RECURSIVE JoinNames(_)
JoinNames(reg) ==
  IF reg = <<>> THEN <<>>
  ELSE IF Len(reg) = 1 THEN reg[1].name
  ELSE reg[1].name \o <<", ">> \o JoinNames(Tail(reg))

\* _get_tool_descriptions: one block per registered tool
RECURSIVE ToolBlocks(_)
ToolBlocks(reg) ==
  IF reg = <<>> THEN <<>>
  ELSE <<"Tool: ">> \o reg[1].name \o <<"Description/Parameters">>
         \o ToolBlocks(Tail(reg))

\* variant: only the first tool of the registry is described
GetToolDescriptionsFirstOnly(reg) ==
  IF reg = <<>> THEN <<"No tools available.">> ELSE ToolBlocks(<<reg[1]>>)

\* _get_tool_descriptions
GetToolDescriptions(reg) ==
  IF reg = <<>> THEN <<"No tools available.">> ELSE ToolBlocks(reg)

\* _create_react_prompt
CreateReactPrompt(reg) ==
  <<"# Task # Tools">> \o GetToolDescriptions(reg)
     \o <<"# Instructions # Important Rules">>

(* ---------------------------- dispatcher ------------------------------ *)

\* what the function of a registered tool does when it is called:
\* it returns a value, or it raises an Exception with a message
ToolOutcomes ==
  { [ok |-> TRUE, val |-> <<"4">>],
    [ok |-> FALSE, val |-> <<"boom">>] }

\* the result of a dispatcher call: the string it returns, or an
\* exception that leaves it
Returned(text) == [raised |-> FALSE, text |-> text]

Propagated(msg) == [raised |-> TRUE, text |-> msg]

NotFoundText(reg, name) ==
  <<"Error", ": Tool '">> \o name \o <<"' not found. Available tools: ">>
     \o JoinNames(reg)

\* both strings the dispatcher returns for a failure start with "Error"
ErrorText(name, msg) ==
  <<"Error", " executing tool '">> \o name \o <<"': ">> \o msg

\* variant: the dispatcher without its try/except
CallToolUncaught(reg, name, outcome) ==
  IF ~Registered(reg, name) THEN Returned(NotFoundText(reg, name))
  ELSE IF outcome.ok THEN Returned(<<"Observation: ">> \o outcome.val)
  ELSE Propagated(outcome.val)

\* variant: the dispatcher without the membership test, so that
\* self.tools[tool_name] raises KeyError for an unknown name
CallToolNoCheck(reg, name, outcome) ==
  IF ~Registered(reg, name) THEN Propagated(<<"KeyError">>)
  ELSE IF outcome.ok THEN Returned(<<"Observation: ">> \o outcome.val)
  ELSE Returned(ErrorText(name, outcome.val))

\* _call_tool
CallTool(reg, name, outcome) ==
  IF ~Registered(reg, name) THEN Returned(NotFoundText(reg, name))
  ELSE IF outcome.ok THEN Returned(<<"Observation: ">> \o outcome.val)
  ELSE Returned(ErrorText(name, outcome.val))

\* whether a tool object has the attribute execute_async that
\* _call_tool_async awaits: class Tools defines __call__ only
HasExecuteAsync == FALSE

\* _call_tool_async: the attribute lookup tool.execute_async is inside
\* the try block, so its AttributeError becomes the error string
CallToolAsync(reg, name, outcome) ==
  IF ~Registered(reg, name) THEN Returned(NotFoundText(reg, name))
  ELSE IF ~HasExecuteAsync
       THEN Returned(ErrorText(name, <<"no attribute 'execute_async'">>))
  ELSE IF outcome.ok THEN Returned(<<"Observation: ">> \o outcome.val)
  ELSE Returned(ErrorText(name, outcome.val))

(* ------------------------------ memory -------------------------------- *)

\* a memory entry; step = 0 and tool = <<>> stand for keys that the
\* metadata of the entry does not have
Turn(role, content, step, tool) ==
  [role |-> role, content |-> content, step |-> step, tool |-> tool]

\* default of get_recent and of _format_messages_from_memory
Limit == 10

\* variant: the oldest entries, self.entries[:limit]
GetRecentOldest(entries, limit) ==
  IF entries = <<>> THEN <<>>
  ELSE SubSeq(entries, 1, IF Len(entries) > limit THEN limit ELSE Len(entries))

\* ListMemory.get_recent: self.entries[-limit:] if self.entries else []
GetRecent(entries, limit) ==
  IF entries = <<>> THEN <<>>
  ELSE SubSeq(entries,
              IF Len(entries) > limit THEN Len(entries) - limit + 1 ELSE 1,
              Len(entries))

\* variant: an entry with a role other than user, assistant, system is
\* not sent
FormatMessagesKnownRoles(entries) ==
  SelectSeq(GetRecent(entries, Limit),
            LAMBDA e : e.role \in {"user", "assistant", "system"})

\* _format_messages_from_memory: every entry becomes a Message, an entry
\* with a role other than user, assistant, system is sent as assistant
FormatMessages(entries) ==
  LET recent == GetRecent(entries, Limit)
  IN  [i \in 1..Len(recent) |->
         IF recent[i].role \in {"user", "assistant", "system"}
         THEN recent[i]
         ELSE [recent[i] EXCEPT !.role = "assistant"]]

\* variant: the observation is added before the assistant turn
StepTurnsObservationFirst(text, observation, step, name) ==
  <<Turn("observation", observation, step, name),
    Turn("assistant", text, step, <<>>)>>

\* the entries an iteration with a tool call adds: the assistant turn,
\* then the observation turn
StepTurns(text, observation, step, name) ==
  <<Turn("assistant", text, step, <<>>),
    Turn("observation", observation, step, name)>>

Fallback == <<"I'm sorry, I couldn't complete the task within the allowed iterations.">>

(* ------------------------------- state -------------------------------- *)

\* Two agent instances are built from the same tool list.  run is called
\* on the first and run_async on the second; the model client of the
\* second returns what the client of the first returned, call by call.
Agents == {"a1", "a2"}

Tasks == {"run", "run_async"}

AgentOf(t) == IF t = "run" THEN "a1" ELSE "a2"

Goals == {<<"2+2?">>}

\* completions of the scripted model client
Scenarios ==
  { <<"Thought:", " ", "compute", "\n", "Answer:", " ", "4">>,
    <<"Answer:", "\n", "4", " ", "\n", "Thought:", " ", "done">>,
    <<"Thought:", " ", "Action:", " ", "calc", "\n">>,
    <<"Action:", " ", "search", "calc">>,
    <<"Answer:", " ", "4", "\n", "Action:", " ", "calc">>,
    <<"Answer:", " ", "4", "\n", "Action:", " ", ".">>,
    <<"Thought:", " ", "hm">>,
    <<"Action:", " ", "calc", "\n", InputMarker, " ", "{", "\"a\"", ":", " ", "4", "}">>,
    <<"Action:", " ", "search", "\n", "Action:", " ", "calc">>,
    <<"Action:", " ", "calc", "\n", InputMarker, " ", "{", "\"a\"", ":", " ", "4">>,
    <<>> }

\* every text of at most n lexemes
Texts(n) == UNION {[1..k -> Alphabet] : k \in 0..n}

\* what the model client of an agent can return; the client "loop" asks
\* for the tool calc at every call
Completions(kind) ==
  IF kind = "script" THEN Scenarios
  ELSE IF kind = "loop" THEN {<<"Action:", " ", "calc">>}
  ELSE Texts(MaxLen)

VARIABLES
  max_iterations,  \* config.max_iterations
  tools,           \* the registry self.tools of both agents
  has_llm_client,  \* whether the agent object has an attribute llm_client
  client,          \* the kind of model client: "script" or "any"
  memory,          \* memory[a]: the entries of the agent's ListMemory
  state,           \* state[a]: the dict self.state
  call,            \* call[t]: the activation of run / run_async
  llm_log,         \* llm_log[t]: what the model client returned, per call
  dispatched,      \* dispatched[t]: the dispatcher calls made by the task
  earlier,         \* what the earlier calls of run on the first agent did
  pure_call        \* a call of a parser function on its own: input and result

\* the variables of the agents
agent_vars ==
  <<max_iterations, tools, has_llm_client, client, memory, state, call,
    llm_log, dispatched, earlier>>

vars == <<agent_vars, pure_call>>

\* no parser function has been called on its own
NoPureCall == [fn |-> "none", input |-> <<>>, output |-> <<>>]

\* the dict {"is_complete": False}
FreshState == [is_complete |-> FALSE]

\* d[k] = v on a dict
SetKey(d, k, v) ==
  [x \in DOMAIN d \cup {k} |-> IF x = k THEN v ELSE d[x]]

\* d.get("is_complete", False)
IsComplete(d) == IF "is_complete" \in DOMAIN d THEN d["is_complete"] ELSE FALSE

None == <<"None">>

\* an activation: where it stands, its local iterations, the messages of
\* its latest model call, what it returned or raised; base is the length
\* of the memory and reg the registry when it was called, nth counts the
\* calls of the task
IdleCall ==
  [pc |-> "idle", iterations |-> 0, goal |-> None, messages |-> <<>>,
   ret |-> None, error |-> "none", base |-> 0, reg |-> <<>>, nth |-> 0]

\* the entries of a ListMemory that has served an earlier conversation:
\* system, user, assistant, observation, assistant, and so on, each with
\* a content of its own
PriorRoles == <<"system", "user", "assistant", "observation", "assistant">>

PriorTurns(n) ==
  [i \in 1..n |->
     Turn(PriorRoles[((i - 1) % Len(PriorRoles)) + 1],
          <<"earlier">> \o [j \in 1..i |-> "."], 0, <<>>)]

\* AgentBase.__init__ and ReActAgent.__init__: the configuration is the
\* default AgentConfig, whose max_iterations the caller may assign; the
\* memory is a new ListMemory or the one the caller passes (explored with
\* the scripted client and max_iterations = 1).  Runs of MaxLoop
\* iterations are explored with the client "loop", on agents as
\* constructed (without the attribute llm_client)
Init ==
  /\ \/ \E m \in 0..MaxIter, k \in {"script", "any"} :
          /\ k = "any" => m = 1
          /\ max_iterations = m
          /\ client = k
     \/ /\ max_iterations = MaxLoop
        /\ client = "loop"
  /\ \E n \in {0, MaxPrior} :
       /\ n > 0 => (max_iterations = 1 /\ client = "script")
       /\ memory = [a \in Agents |-> PriorTurns(n)]
  /\ \E list \in ToolLists : tools = BuildRegistry(list)
  /\ has_llm_client \in BOOLEAN
  /\ client = "loop" => ~has_llm_client
  /\ state = [a \in Agents |-> FreshState]
  /\ call = [t \in Tasks |-> IdleCall]
  /\ llm_log = [t \in Tasks |-> <<>>]
  /\ dispatched = [t \in Tasks |-> <<>>]
  /\ earlier = <<>>
  /\ pure_call = NoPureCall

\* variant: reset leaves the dict as it is
ResetKeepsState(d) == d

\* variant: reset clears is_complete and keeps the other keys
ResetKeepsKeys(d) == SetKey(d, "is_complete", FALSE)

\* AgentBase.reset
Reset(d) == FreshState

\* variant: the loop test `iterations <= max_iterations`
LoopHeadOffByOne(c, d, entries) ==
  IF c.iterations <= max_iterations /\ ~IsComplete(d)
  THEN [c |-> [c EXCEPT !.pc = "awaiting_llm",
                        !.iterations = c.iterations + 1,
                        !.messages = FormatMessages(entries)],
        d |-> [x \in DOMAIN d \cup {"current_step"} |->
                 IF x = "current_step" THEN c.iterations + 1 ELSE d[x]]]
  ELSE [c |-> [c EXCEPT !.pc = "loop_exit"], d |-> d]

\* the head of the while loop: the test, the increment, current_step and
\* the messages of the model call that follows
LoopHead(c, d, entries) ==
  IF c.iterations < max_iterations /\ ~IsComplete(d)
  THEN [c |-> [c EXCEPT !.pc = "awaiting_llm",
                        !.iterations = c.iterations + 1,
                        !.messages = FormatMessages(entries)],
        d |-> SetKey(d, "current_step", c.iterations + 1)]
  ELSE [c |-> [c EXCEPT !.pc = "loop_exit"], d |-> d]

(* ------------------------------- run ---------------------------------- *)

\* The local values of a step are bound with \E over a one-element set,
\* so that each of them is computed once.

\* the entries the activation t has appended
RunTurns(t) ==
  SubSeq(memory[AgentOf(t)], call[t].base + 1, Len(memory[AgentOf(t)]))

\* role and content of the entries
RoleContent(turns) ==
  [i \in 1..Len(turns) |-> <<turns[i].role, turns[i].content>>]

\* what a call of run that has ended leaves for the record
Summary ==
  [goal |-> call["run"].goal, reg |-> call["run"].reg,
   turns |-> RoleContent(RunTurns("run")), log |-> llm_log["run"],
   dispatched |-> dispatched["run"], pc |-> call["run"].pc,
   ret |-> call["run"].ret, state |-> state[AgentOf("run")]]

\* variant: the user turn is added before the system turn
OpeningTurnsUserFirst(reg, goal) ==
  <<Turn("user", goal, 0, <<>>), Turn("system", CreateReactPrompt(reg), 0, <<>>)>>

\* the two self.memory.add calls that precede the loop
OpeningTurns(reg, goal) ==
  <<Turn("system", CreateReactPrompt(reg), 0, <<>>), Turn("user", goal, 0, <<>>)>>

\* variant: run clears the memory before it adds the opening turns
RunCallClearing(goal) ==
  /\ \/ call["run"].pc = "idle"
     \/ /\ call["run"].pc \in {"returned", "raised"}
        /\ call["run"].nth < MaxRuns
        /\ call["run_async"].pc = "idle"
        /\ client = "script"
        /\ max_iterations <= 1
  /\ \E a \in {AgentOf("run")} :
     \E entries \in {OpeningTurns(tools, goal)} :
     \E d0 \in {SetKey(Reset(state[a]), "input", goal)} :
     \E c0 \in {[IdleCall EXCEPT !.goal = goal, !.base = 0,
                                 !.reg = tools, !.nth = call["run"].nth + 1]} :
     \E nxt \in {LoopHead(c0, d0, entries)} :
         /\ memory' = [memory EXCEPT ![a] = entries]
         /\ state' = [state EXCEPT ![a] = nxt.d]
         /\ call' = [call EXCEPT !["run"] = nxt.c]
  /\ earlier' = IF call["run"].pc = "idle" THEN earlier ELSE Append(earlier, Summary)
  /\ llm_log' = [llm_log EXCEPT !["run"] = <<>>]
  /\ dispatched' = [dispatched EXCEPT !["run"] = <<>>]
  /\ UNCHANGED <<pure_call, max_iterations, tools, has_llm_client, client>>

\* run, from its call to the first model call (or to the end of the loop).
\* A further call on the same agent is explored after the call before it
\* has ended, for the scripted client and max_iterations of at most 1.
RunCall(goal) ==
  /\ \/ call["run"].pc = "idle"
     \/ /\ call["run"].pc \in {"returned", "raised"}
        /\ call["run"].nth < MaxRuns
        /\ call["run_async"].pc = "idle"
        /\ client = "script"
        /\ max_iterations <= 1
  /\ \E a \in {AgentOf("run")} :
     \E entries \in {memory[a] \o OpeningTurns(tools, goal)} :
     \E d0 \in {SetKey(Reset(state[a]), "input", goal)} :
     \E c0 \in {[IdleCall EXCEPT !.goal = goal, !.base = Len(memory[a]),
                                 !.reg = tools, !.nth = call["run"].nth + 1]} :
     \E nxt \in {LoopHead(c0, d0, entries)} :
         /\ memory' = [memory EXCEPT ![a] = entries]
         /\ state' = [state EXCEPT ![a] = nxt.d]
         /\ call' = [call EXCEPT !["run"] = nxt.c]
  /\ earlier' = IF call["run"].pc = "idle" THEN earlier ELSE Append(earlier, Summary)
  /\ llm_log' = [llm_log EXCEPT !["run"] = <<>>]
  /\ dispatched' = [dispatched EXCEPT !["run"] = <<>>]
  /\ UNCHANGED <<pure_call, max_iterations, tools, has_llm_client, client>>

\* the caller assigns agent.tools between two calls of run
SetTools ==
  /\ call["run"].pc \in {"returned", "raised"}
  /\ call["run"].nth < MaxRuns
  /\ call["run_async"].pc = "idle"
  /\ client = "script"
  /\ max_iterations <= 1
  /\ tools = call["run"].reg
  /\ \E list \in ToolLists :
       /\ BuildRegistry(list) # tools
       /\ tools' = BuildRegistry(list)
  /\ UNCHANGED <<pure_call, earlier, max_iterations, has_llm_client, client,
                 memory, state, call, llm_log, dispatched>>

\* variant: the failure of the model call is caught and ends the loop
LlmFailureSwallowed(c) == [c EXCEPT !.pc = "loop_exit"]

\* what run does when self._llm.completion raises: nothing catches it
LlmFailure(c) == [c EXCEPT !.pc = "raised", !.error = "llm"]

\* the model client fails: the exception leaves run
RunLlmRaises ==
  /\ call["run"].pc = "awaiting_llm"
  /\ call' = [call EXCEPT !["run"] = LlmFailure(call["run"])]
  /\ llm_log' = [llm_log EXCEPT !["run"] = Append(@, [ok |-> FALSE, text |-> <<>>,
                                   messages |-> call["run"].messages])]
  /\ UNCHANGED <<pure_call, earlier, max_iterations, tools, has_llm_client, client, memory, state,
                 dispatched>>

\* variant: the answer is stored, the run is not marked complete and the
\* loop goes on
RunAnswerGoesOn ==
  /\ call["run"].pc = "awaiting_llm"
  /\ \E text \in Completions(client) :
     /\ llm_log' = [llm_log EXCEPT !["run"] =
                       Append(@, [ok |-> TRUE, text |-> text,
                                  messages |-> call["run"].messages])]
     /\ IsAnswerSync(text)
     /\ \E a \in {AgentOf("run")}, c \in {call["run"]} :
        \E entries \in {Append(memory[a], Turn("assistant", text, c.iterations, <<>>))} :
        \E d \in {SetKey(state[a], "response", ExtractAnswer(text))} :
        \E nxt \in {LoopHead(c, d, entries)} :
            /\ memory' = [memory EXCEPT ![a] = entries]
            /\ state' = [state EXCEPT ![a] = nxt.d]
            /\ call' = [call EXCEPT !["run"] = nxt.c]
     /\ UNCHANGED <<pure_call, earlier, max_iterations, tools, has_llm_client,
                    client, dispatched>>

\* the completion is taken as the final answer: response, is_complete, break
RunAnswer ==
  /\ call["run"].pc = "awaiting_llm"
  /\ \E text \in Completions(client) :
     /\ llm_log' = [llm_log EXCEPT !["run"] =
                       Append(@, [ok |-> TRUE, text |-> text,
                                  messages |-> call["run"].messages])]
     /\ IsAnswerSync(text)
     /\ LET a == AgentOf("run")
            c == call["run"]
        IN  /\ memory' = [memory EXCEPT ![a] =
                            Append(@, Turn("assistant", text, c.iterations, <<>>))]
            /\ state' = [state EXCEPT ![a] =
                           SetKey(SetKey(@, "response", ExtractAnswer(text)),
                                  "is_complete", TRUE)]
            /\ call' = [call EXCEPT !["run"].pc = "loop_exit"]
     /\ UNCHANGED <<pure_call, earlier, max_iterations, tools, has_llm_client, client, dispatched>>

\* the completion holds a tool call: dispatch, observation turn, next iteration
RunToolCall ==
  /\ call["run"].pc = "awaiting_llm"
  /\ \E text \in Completions(client), outcome \in ToolOutcomes :
     /\ llm_log' = [llm_log EXCEPT !["run"] =
                       Append(@, [ok |-> TRUE, text |-> text,
                                  messages |-> call["run"].messages])]
     /\ ~IsAnswerSync(text)
     /\ ParseToolCall(text).found
     /\ \E a \in {AgentOf("run")}, c \in {call["run"]} :
        \E name \in {ParseToolCall(text).tool} :
        \E obs \in {CallTool(tools, name, outcome)} :
        \E withAsst \in {Append(memory[a], Turn("assistant", text, c.iterations, <<>>))} :
        \E entries \in {memory[a] \o StepTurns(text, obs.text, c.iterations, name)} :
        \E nxt \in {LoopHead(c, state[a], entries)} :
            /\ Registered(tools, name) \/ outcome = CHOOSE o \in ToolOutcomes : TRUE
            /\ dispatched' = [dispatched EXCEPT !["run"] =
                 Append(@, [tool |-> name,
                            params |-> ParseToolCall(text).params,
                            id |-> IF Registered(tools, name)
                                   THEN Lookup(tools, name).id ELSE 0,
                            outcome |-> outcome])]
            /\ IF obs.raised
               THEN /\ memory' = [memory EXCEPT ![a] = withAsst]
                    /\ call' = [call EXCEPT !["run"].pc = "raised",
                                            !["run"].error = "tool"]
                    /\ state' = state
               ELSE /\ memory' = [memory EXCEPT ![a] = entries]
                    /\ call' = [call EXCEPT !["run"] = nxt.c]
                    /\ state' = [state EXCEPT ![a] = nxt.d]
     /\ UNCHANGED <<pure_call, earlier, max_iterations, tools, has_llm_client, client>>

\* variant: a completion that is neither an answer nor a tool call ends
\* the run with the fallback on any iteration
RunNoActionGivesUp ==
  /\ call["run"].pc = "awaiting_llm"
  /\ \E text \in Completions(client) :
     /\ llm_log' = [llm_log EXCEPT !["run"] =
                       Append(@, [ok |-> TRUE, text |-> text,
                                  messages |-> call["run"].messages])]
     /\ ~IsAnswerSync(text)
     /\ ~ParseToolCall(text).found
     /\ \E a \in {AgentOf("run")}, c \in {call["run"]} :
        \E entries \in {Append(memory[a], Turn("assistant", text, c.iterations, <<>>))} :
            /\ memory' = [memory EXCEPT ![a] = entries]
            /\ state' = [state EXCEPT ![a] =
                           SetKey(SetKey(@, "response", Fallback),
                                  "is_complete", TRUE)]
            /\ call' = [call EXCEPT !["run"].pc = "loop_exit"]
     /\ UNCHANGED <<pure_call, earlier, max_iterations, tools, has_llm_client, client, dispatched>>

\* neither an answer nor a tool call: fallback on the last iteration,
\* otherwise the next iteration
RunNoAction ==
  /\ call["run"].pc = "awaiting_llm"
  /\ \E text \in Completions(client) :
     /\ llm_log' = [llm_log EXCEPT !["run"] =
                       Append(@, [ok |-> TRUE, text |-> text,
                                  messages |-> call["run"].messages])]
     /\ ~IsAnswerSync(text)
     /\ ~ParseToolCall(text).found
     /\ \E a \in {AgentOf("run")}, c \in {call["run"]} :
        \E entries \in {Append(memory[a], Turn("assistant", text, c.iterations, <<>>))} :
        \E nxt \in {LoopHead(c, state[a], entries)} :
            /\ memory' = [memory EXCEPT ![a] = entries]
            /\ IF c.iterations >= max_iterations
               THEN /\ state' = [state EXCEPT ![a] =
                                  SetKey(SetKey(@, "response", Fallback),
                                         "is_complete", TRUE)]
                    /\ call' = [call EXCEPT !["run"].pc = "loop_exit"]
               ELSE /\ state' = [state EXCEPT ![a] = nxt.d]
                    /\ call' = [call EXCEPT !["run"] = nxt.c]
     /\ UNCHANGED <<pure_call, earlier, max_iterations, tools, has_llm_client, client, dispatched>>

\* variant: the value returned is the goal
ReturnResponseGoal(c, d) == [c EXCEPT !.pc = "returned", !.ret = c.goal]

\* return self.state["response"]: a dict without the key raises KeyError
ReturnResponse(c, d) ==
  IF "response" \in DOMAIN d
  THEN [c EXCEPT !.pc = "returned", !.ret = d["response"]]
  ELSE [c EXCEPT !.pc = "raised", !.error = "KeyError"]

\* variant: run without the fallback assignment after the loop
RunReturnNoFallback ==
  /\ call["run"].pc = "loop_exit"
  /\ call' = [call EXCEPT !["run"] = ReturnResponse(@, state[AgentOf("run")])]
  /\ UNCHANGED <<pure_call, earlier, max_iterations, tools, has_llm_client, client, memory,
                 state, llm_log, dispatched>>

\* after the loop: the fallback when the run is not complete, then
\* return self.state["response"]
RunReturn ==
  /\ call["run"].pc = "loop_exit"
  /\ LET a == AgentOf("run")
         d == IF ~IsComplete(state[a])
              THEN SetKey(SetKey(state[a], "response", Fallback),
                          "is_complete", TRUE)
              ELSE state[a]
     IN  /\ state' = [state EXCEPT ![a] = d]
         /\ call' = [call EXCEPT !["run"] = ReturnResponse(@, d)]
  /\ UNCHANGED <<pure_call, earlier, max_iterations, tools, has_llm_client, client, memory,
                 llm_log, dispatched>>

(* ---------------------------- run_async ------------------------------ *)

\* the head of the while loop of run_async, up to the awaited model call:
\* hasattr(self.llm_client, ...) reads the attribute llm_client first and
\* raises AttributeError on an agent that has no such attribute
AsyncLoopHead(c, d, entries) ==
  LET nxt == LoopHead(c, d, entries)
  IN  IF nxt.c.pc = "awaiting_llm" /\ ~has_llm_client
      THEN [c |-> [nxt.c EXCEPT !.pc = "raised", !.error = "AttributeError"],
            d |-> nxt.d]
      ELSE nxt

\* the outcome of the next model call of run_async: the one run got
HasReplay == Len(llm_log["run_async"]) < Len(llm_log["run"])

Replay == llm_log["run"][Len(llm_log["run_async"]) + 1]

\* the entry of the log of run_async for that model call
Replayed == [Replay EXCEPT !.messages = call["run_async"].messages]

\* run_async, from its call to the first await; it is called with the
\* goal and the registry of the first run, once that run has ended
RunAsyncCall(goal) ==
  /\ call["run"].pc \in {"returned", "raised"}
  /\ call["run"].nth = 1
  /\ tools = call["run"].reg
  /\ call["run_async"].pc = "idle"
  /\ goal = call["run"].goal
  /\ \E a \in {AgentOf("run_async")} :
     \E entries \in {memory[a] \o OpeningTurns(tools, goal)} :
     \E d0 \in {SetKey(Reset(state[a]), "input", goal)} :
     \E c0 \in {[IdleCall EXCEPT !.goal = goal, !.base = Len(memory[a]),
                                 !.reg = tools, !.nth = 1]} :
     \E nxt \in {AsyncLoopHead(c0, d0, entries)} :
         /\ memory' = [memory EXCEPT ![a] = entries]
         /\ state' = [state EXCEPT ![a] = nxt.d]
         /\ call' = [call EXCEPT !["run_async"] = nxt.c]
  /\ UNCHANGED <<pure_call, earlier, max_iterations, tools, has_llm_client, client, llm_log,
                 dispatched>>

\* the awaited model call fails: the exception leaves run_async
RunAsyncLlmRaises ==
  /\ call["run_async"].pc = "awaiting_llm"
  /\ HasReplay /\ ~Replay.ok
  /\ llm_log' = [llm_log EXCEPT !["run_async"] = Append(@, Replayed)]
  /\ call' = [call EXCEPT !["run_async"] = LlmFailure(call["run_async"])]
  /\ UNCHANGED <<pure_call, earlier, max_iterations, tools, has_llm_client, client, memory, state,
                 dispatched>>

\* the completion is taken as the final answer
RunAsyncAnswer ==
  /\ call["run_async"].pc = "awaiting_llm"
  /\ HasReplay /\ Replay.ok
  /\ \E text \in {Replay.text} :
     /\ llm_log' = [llm_log EXCEPT !["run_async"] = Append(@, Replayed)]
     /\ IsAnswerAsync(text)
     /\ LET a == AgentOf("run_async")
            c == call["run_async"]
        IN  /\ memory' = [memory EXCEPT ![a] =
                            Append(@, Turn("assistant", text, c.iterations, <<>>))]
            /\ state' = [state EXCEPT ![a] =
                           SetKey(SetKey(@, "response", ExtractAnswer(text)),
                                  "is_complete", TRUE)]
            /\ call' = [call EXCEPT !["run_async"].pc = "loop_exit"]
     /\ UNCHANGED <<pure_call, earlier, max_iterations, tools, has_llm_client, client, dispatched>>

\* the completion holds a tool call: _call_tool_async, observation turn,
\* next iteration up to its await
RunAsyncToolCall ==
  /\ call["run_async"].pc = "awaiting_llm"
  /\ HasReplay /\ Replay.ok
  /\ \E text \in {Replay.text}, outcome \in ToolOutcomes :
     /\ llm_log' = [llm_log EXCEPT !["run_async"] = Append(@, Replayed)]
     /\ ~IsAnswerAsync(text)
     /\ ParseToolCall(text).found
     /\ \E a \in {AgentOf("run_async")}, c \in {call["run_async"]} :
        \E name \in {ParseToolCall(text).tool} :
        \E obs \in {CallToolAsync(tools, name, outcome)} :
        \E withAsst \in {Append(memory[a], Turn("assistant", text, c.iterations, <<>>))} :
        \E entries \in {memory[a] \o StepTurns(text, obs.text, c.iterations, name)} :
        \E nxt \in {AsyncLoopHead(c, state[a], entries)} :
            /\ Registered(tools, name) \/ outcome = CHOOSE o \in ToolOutcomes : TRUE
            /\ dispatched' = [dispatched EXCEPT !["run_async"] =
                 Append(@, [tool |-> name,
                            params |-> ParseToolCall(text).params,
                            id |-> IF Registered(tools, name)
                                   THEN Lookup(tools, name).id ELSE 0,
                            outcome |-> outcome])]
            /\ IF obs.raised
               THEN /\ memory' = [memory EXCEPT ![a] = withAsst]
                    /\ call' = [call EXCEPT !["run_async"].pc = "raised",
                                            !["run_async"].error = "tool"]
                    /\ state' = state
               ELSE /\ memory' = [memory EXCEPT ![a] = entries]
                    /\ call' = [call EXCEPT !["run_async"] = nxt.c]
                    /\ state' = [state EXCEPT ![a] = nxt.d]
     /\ UNCHANGED <<pure_call, earlier, max_iterations, tools, has_llm_client, client>>

\* neither an answer nor a tool call
RunAsyncNoAction ==
  /\ call["run_async"].pc = "awaiting_llm"
  /\ HasReplay /\ Replay.ok
  /\ \E text \in {Replay.text} :
     /\ llm_log' = [llm_log EXCEPT !["run_async"] = Append(@, Replayed)]
     /\ ~IsAnswerAsync(text)
     /\ ~ParseToolCall(text).found
     /\ \E a \in {AgentOf("run_async")}, c \in {call["run_async"]} :
        \E entries \in {Append(memory[a], Turn("assistant", text, c.iterations, <<>>))} :
        \E nxt \in {AsyncLoopHead(c, state[a], entries)} :
            /\ memory' = [memory EXCEPT ![a] = entries]
            /\ IF c.iterations >= max_iterations
               THEN /\ state' = [state EXCEPT ![a] =
                                  SetKey(SetKey(@, "response", Fallback),
                                         "is_complete", TRUE)]
                    /\ call' = [call EXCEPT !["run_async"].pc = "loop_exit"]
               ELSE /\ state' = [state EXCEPT ![a] = nxt.d]
                    /\ call' = [call EXCEPT !["run_async"] = nxt.c]
     /\ UNCHANGED <<pure_call, earlier, max_iterations, tools, has_llm_client, client, dispatched>>

\* after the loop of run_async
RunAsyncReturn ==
  /\ call["run_async"].pc = "loop_exit"
  /\ LET a == AgentOf("run_async")
         d == IF ~IsComplete(state[a])
              THEN SetKey(SetKey(state[a], "response", Fallback),
                          "is_complete", TRUE)
              ELSE state[a]
     IN  /\ state' = [state EXCEPT ![a] = d]
         /\ call' = [call EXCEPT !["run_async"] = ReturnResponse(@, d)]
  /\ UNCHANGED <<pure_call, earlier, max_iterations, tools, has_llm_client, client, memory,
                 llm_log, dispatched>>

(* ------------------------------ system -------------------------------- *)

Next ==
  \/ \E goal \in Goals : RunCall(goal)
  \/ RunLlmRaises
  \/ RunAnswer
  \/ RunToolCall
  \/ RunNoAction
  \/ RunReturn
  \/ SetTools
  \/ \E goal \in Goals : RunAsyncCall(goal)
  \/ RunAsyncLlmRaises
  \/ RunAsyncAnswer
  \/ RunAsyncToolCall
  \/ RunAsyncNoAction
  \/ RunAsyncReturn

Spec == Init /\ [][Next]_vars

\* a call that has started keeps running: the interpreter executes run to
\* its end, and the event loop resumes run_async when its await completes
FairSpec == Spec /\ WF_vars(Next)

(* ----------------------- the parsers on their own --------------------- *)

\* longest text (in lexemes) after `Action Input: ` of the exhaustively
\* enumerated parser inputs
MaxBody == 6

JsonAlphabet == {"{", "}", "\"a\"", ":", "4", "\n"}

\* every text of at most n lexemes of JSON
Bodies(n) == UNION {[1..k -> JsonAlphabet] : k \in 0..n}

\* completions with a tool action and its input
JsonSamples ==
  { <<"Action:", " ", "calc", "\n", InputMarker, " ",
      "{", "\"a\"", ":", " ", "{", "\"b\"", ":", " ", "4", "}", "}">>,
    <<"Action:", " ", "calc", "\n", InputMarker, " ",
      "{", "\"a\"", ":", " ", "\"x", "}", "y\"", "}">>,
    <<"Action:", " ", "calc", "\n", InputMarker, " ",
      "{", "\"a\"", ":", " ", "\"x", " ", "y\"", "}">>,
    <<"Action:", " ", "search", "\n", InputMarker, "\n",
      "{", "\"a\"", ":", " ", "4", ",", " ", "\"b\"", ":", "\"a\"", "}", "\n">>,
    <<"Action:", " ", "calc", "\n", InputMarker, " ",
      "{", "\"a\"", ":", "4", ",", "\"a\"", ":", "\"b\"", "}">>,
    <<"Action:", " ", "calc", "\n", InputMarker, " ",
      "{", "\"a\"", ":", "4", ",", "}">>,
    <<"Action:", " ", "calc", "\n", InputMarker, " ",
      "{", "\n", " ", "hm", " ", ":", " ", "4", " ", "\n",
      "done", ":", "4", ",", ":", "\n", "hm", ":", "calc", "\n", "}">>,
    <<"Action:", " ", "calc", "\n", InputMarker, " ",
      "{", "Thought:", " ", "4", "\n", "}">>,
    <<"Action:", InputMarker, " ", "{", "\"a\"", ":", "4", "}">>,
    <<InputMarker, " ", "{", "\"a\"", ":", "4", "}", "\n", "Action:", " ", "calc">>,
    <<"Action:", " ", "calc", "\n", InputMarker, " ", "calc", " ",
      "{", "\"a\"", ":", "4", "}">>,
    <<"Action:", " ", "calc", "\n", InputMarker, " ", "\n",
      InputMarker, " ", "{", "\"a\"", ":", "4", "}">>,
    <<"Thought:", " ", InputMarker, " ", "{", "\"a\"", ":", "4", "}">> }

\* the completions _parse_tool_call is applied to
ParserTexts ==
  {<<"Action:", " ", "calc", "\n", InputMarker, " ">> \o b : b \in Bodies(MaxBody)}
    \cup JsonSamples

\* tool_call = self._parse_tool_call(content)
ApplyParseToolCall ==
  /\ pure_call.fn = "none"
  /\ \E text \in ParserTexts :
       pure_call' = [fn |-> "_parse_tool_call", input |-> text,
                     output |-> ParseToolCall(text)]
  /\ UNCHANGED agent_vars

(* ----------------------- GoogleStyleDocsParser ------------------------- *)

\* A docstring is the sequence of its lines.  A line is its indentation
\* (0: none, 1: some whitespace) and the lexemes after it; a line without
\* lexemes is empty (ind = 0) or holds whitespace only (ind = 1).
DocLine(ind, txt) == [ind |-> ind, txt |-> txt]

EmptyLine == DocLine(0, <<>>)

SpaceLine == DocLine(1, <<>>)

IsBlank(line) == line.txt = <<>>

\* the alternation (Args|Returns|Raises|Examples) followed by the colon
SectionNames == {"Args:", "Returns:", "Raises:", "Examples:"}

\* the words of the negative lookahead that closes the section pattern
LookaheadWords ==
  {"Returns:", "Raises:", "Yields:", "Examples:", "Note:", "Notes:",
   "Attributes:", "Todo:", "Warning:", "Warnings:"}

\* str.strip() of a text of several lines: blank lines at both ends go,
\* and so does the indentation of the first line left
RECURSIVE StripLines(_)
StripLines(ls) ==
  IF ls = <<>> THEN ls
  ELSE IF IsBlank(ls[1]) THEN StripLines(Tail(ls))
  ELSE IF IsBlank(ls[Len(ls)]) THEN StripLines(SubSeq(ls, 1, Len(ls) - 1))
  ELSE [ls EXCEPT ![1].ind = 0]

\* re.match(r"^(?P<description>.*?)(?=\n\n|\Z)", content, re.DOTALL): the
\* text before the first two newlines in a row, which an empty line that
\* is neither the first nor the last line gives; .strip()
Description(doc) ==
  LET gaps == {i \in 2..(Len(doc) - 1) : doc[i] = EmptyLine}
  IN  StripLines(IF gaps = {} THEN doc ELSE SubSeq(doc, 1, Min(gaps) - 1))

\* the number of blank lines that follow line e
RECURSIVE BlankRun(_, _)
BlankRun(doc, e) ==
  IF e + 1 > Len(doc) \/ ~IsBlank(doc[e + 1]) THEN 0
  ELSE 1 + BlankRun(doc, e + 1)

\* whether r"(?:\n\s*))\n\s*(?!Returns|...)" matches after line e: two
\* newlines with whitespace only between them, and a choice of the last
\* \s* that leaves no lookahead word next
EndsHere(doc, e) ==
  /\ BlankRun(doc, e) >= 1
  /\ \/ BlankRun(doc, e) >= 2
     \/ /\ e + 2 <= Len(doc)
        /\ doc[e + 2].ind = 1 \/ doc[e + 2].txt[1] \notin LookaheadWords

\* the lines of group "content" for the section whose header is line h:
\* from the first line with text after the header to the first line where
\* the pattern can end (lazy); none when it can end nowhere
SectionContent(doc, h) ==
  LET texts == {s \in (h + 1)..Len(doc) : ~IsBlank(doc[s])}
  IN  IF texts = {} THEN [found |-> FALSE, first |-> 0, last |-> 0]
      ELSE LET ends == {e \in Min(texts)..Len(doc) : EndsHere(doc, e)}
           IN  IF ends = {} THEN [found |-> FALSE, first |-> 0, last |-> 0]
               ELSE [found |-> TRUE, first |-> Min(texts), last |-> Min(ends)]

\* pattern.finditer(content): the contents of the Args sections matched
\* from line `from` on, in order; a match resumes the scan after its end
RECURSIVE ArgsSections(_, _)
ArgsSections(doc, from) ==
  LET heads == {h \in from..Len(doc) :
                  Len(doc[h].txt) = 1 /\ doc[h].txt[1] \in SectionNames}
  IN  IF heads = {} THEN <<>>
      ELSE LET h == Min(heads)
               m == SectionContent(doc, h)
           IN  IF ~m.found THEN ArgsSections(doc, h + 1)
               ELSE (IF doc[h].txt[1] = "Args:"
                     THEN <<SubSeq(doc, m.first, m.last)>> ELSE <<>>)
                      \o ArgsSections(doc, m.last + 1)

\* the ways the rest of a line, after the key of k lexemes, matches
\* r"\s*\s*(?:\((?P<type>.*?)\))?\s*:\s*(?P<desc>.+)": with the group
WithType(t, k) ==
  LET p == SkipWS(t, k + 1)
  IN  {q \in (p + 1)..Len(t) :
         /\ p <= Len(t) /\ t[p] = "("
         /\ t[q] = ")"
         /\ SkipWS(t, q + 1) < Len(t)
         /\ t[SkipWS(t, q + 1)] = ":"}

\* and without it
WithoutType(t, k) ==
  LET p == SkipWS(t, k + 1)
  IN  p < Len(t) /\ t[p] = ":"

\* pattern.match(line) in _parse_args: the key is lazy, the group is
\* tried first and its type is lazy; the Arg of the line
ParseArgLine(t) ==
  LET keys == {k \in 0..Len(t) : WithType(t, k) # {} \/ WithoutType(t, k)}
      k == Min(keys)
      p == SkipWS(t, k + 1)
  IN  IF keys = {} THEN [found |-> FALSE]
      ELSE IF WithType(t, k) # {}
      THEN LET q == Min(WithType(t, k))
           IN  [found |-> TRUE, arg_name |-> Strip(SubSeq(t, 1, k)),
                arg_type |-> SubSeq(t, p + 1, q - 1),
                arg_desc |-> Strip(SubSeq(t, SkipWS(t, q + 1) + 1, Len(t)))]
      ELSE [found |-> TRUE, arg_name |-> Strip(SubSeq(t, 1, k)),
            arg_type |-> None,
            arg_desc |-> Strip(SubSeq(t, p + 1, Len(t)))]

\* _parse_args: one Arg per line that has text and matches
RECURSIVE ParseArgs(_)
ParseArgs(ls) ==
  IF ls = <<>> THEN <<>>
  ELSE LET a == ParseArgLine(ls[1].txt)
       IN  (IF ~IsBlank(ls[1]) /\ a.found
            THEN <<[arg_name |-> a.arg_name, arg_type |-> a.arg_type,
                    arg_desc |-> a.arg_desc]>>
            ELSE <<>>) \o ParseArgs(Tail(ls))

\* the loop over inspect.signature(func).parameters: a parameter without
\* an Arg gets one, with an empty description, at the end; otherwise the
\* last Arg of that name gets the name of the annotation as its type
RECURSIVE MergeSignature(_, _)
MergeSignature(args, params) ==
  IF params = <<>> THEN args
  ELSE LET prm == params[1]
           same == {i \in 1..Len(args) : args[i].arg_name = prm.name}
       IN  MergeSignature(
             IF same = {}
             THEN Append(args, [arg_name |-> prm.name, arg_type |-> prm.annotation,
                                arg_desc |-> <<>>])
             ELSE [args EXCEPT ![CHOOSE i \in same : \A j \in same : j <= i].arg_type
                                  = prm.annotation],
             Tail(params))

\* GoogleStyleDocsParser.parse
DocsParse(func, doc) ==
  LET found == ArgsSections(doc, 1)
      args == IF found = <<>> THEN <<>>
              ELSE ParseArgs(StripLines(found[Len(found)]))
  IN  [name |-> func.name, description |-> Description(doc),
       args |-> MergeSignature(args, func.params)]

\* functions the parser is applied to, with their annotated parameters
Funcs ==
  { [name |-> "add_numbers",
     params |-> <<[name |-> <<"a">>, annotation |-> <<"int">>],
                  [name |-> <<"b">>, annotation |-> <<"int">>]>>] }

\* lines of docstrings
ArgA == DocLine(1, <<"a", " ", "(", "int", ")", ":", " ", "first.">>)

ArgB == DocLine(1, <<"b", " ", "(", "int", ")", ":", " ", "second", " ", "one.">>)

ArgAStr == DocLine(1, <<"a", " ", "(", "str", ")", ":", " ", "first.">>)

Continued == DocLine(1, <<"and", " ", "more.">>)

ReturnsLine == DocLine(1, <<"int", ":", " ", "sum.">>)

\* the parts docstrings are put together from: what precedes the
\* description, the description, what separates it from the Args section,
\* the lines of that section and what follows them; ind is the
\* indentation of the description and of the section headers
Leads == {<<>>, <<EmptyLine>>, <<EmptyLine, EmptyLine>>}

Descs(ind) ==
  {<<DocLine(ind, <<"Sum.">>)>>,
   <<DocLine(ind, <<"Sum.">>), DocLine(ind, <<"More.">>)>>}

Seps == {<<EmptyLine>>, <<EmptyLine, EmptyLine>>, <<SpaceLine>>}

ArgLists ==
  {<<ArgA, ArgB>>, <<ArgB, ArgA>>, <<ArgAStr, ArgB>>, <<ArgA, Continued, ArgB>>,
   <<ArgA, EmptyLine, ArgB>>, <<ArgA>>}

Tails(ind) ==
  {<<>>, <<SpaceLine>>, <<EmptyLine>>, <<EmptyLine, SpaceLine>>,
   <<EmptyLine, DocLine(ind, <<"Returns:">>), ReturnsLine, SpaceLine>>,
   <<DocLine(ind, <<"Returns:">>), ReturnsLine, SpaceLine>>,
   <<EmptyLine, EmptyLine, DocLine(ind, <<"Returns:">>), ReturnsLine>>}

\* the docstrings the parser is applied to
DocTexts ==
  UNION {{lead \o desc \o sep \o <<DocLine(ind, <<"Args:">>)>> \o args \o tail :
            lead \in Leads, desc \in Descs(ind), sep \in Seps,
            args \in ArgLists, tail \in Tails(ind)} : ind \in {0, 1}}

\* tool_desc = parser.parse(func, doc)
ApplyDocsParse ==
  /\ pure_call.fn = "none"
  /\ \E func \in Funcs, doc \in DocTexts :
       pure_call' = [fn |-> "parse", input |-> [func |-> func, doc |-> doc],
                     output |-> DocsParse(func, doc)]
  /\ UNCHANGED agent_vars

\* the parsers are called on objects that run nothing
PureInit ==
  /\ Init
  /\ max_iterations = 0
  /\ client = "script"
  /\ tools = <<>>
  /\ ~has_llm_client

PureNext == ApplyParseToolCall \/ ApplyDocsParse

PureSpec == PureInit /\ [][PureNext]_vars

(* ---------------- two calls of run_async on one agent ----------------- *)

\* Two tasks of one event loop call run_async on the same agent object.
\* A coroutine runs without interruption from one await that suspends to
\* the next; run_async has two await expressions, the model call
\* (react_agent.py:272, 280) and self._call_tool_async (326).  The second
\* never suspends: _call_tool_async returns or fails at the attribute
\* lookup tool.execute_async before anything is awaited.  So a step of a
\* task goes from its call or from the awaited model call to the next
\* awaited model call or to the end of run_async.
Shared == "shared"

ConcTasks == {"first", "second"}

ConcGoal(t) == IF t = "first" THEN <<"2+2?">> ELSE <<"done?">>

\* what the scripted client returns to a model call of task t: a final
\* answer to the goal of t, a tool call, or neither
ConcCompletions(t) ==
  { <<"Answer:", " ", IF t = "first" THEN "4" ELSE "done">>,
    <<"Action:", " ", "calc">>,
    <<"Thought:", " ", "hm">> }

\* variant: the value returned is the fallback, whatever the state holds
ConcFinishFallback(c, d) ==
  [c |-> [c EXCEPT !.pc = "returned", !.ret = Fallback], d |-> d]

\* after the loop of run_async: the fallback when the state is not
\* complete, then return self.state["response"]
ConcFinish(c, d) ==
  LET d1 == IF ~IsComplete(d)
            THEN SetKey(SetKey(d, "response", Fallback), "is_complete", TRUE)
            ELSE d
  IN  [c |-> ReturnResponse(c, d1), d |-> d1]

\* the loop test and what follows it up to the next suspension
ConcContinue(c, d, entries) ==
  LET nxt == AsyncLoopHead(c, d, entries)
  IN  IF nxt.c.pc = "loop_exit" THEN ConcFinish(nxt.c, nxt.d) ELSE nxt

\* run_async from its call to the first awaited model call
ConcCall(t) ==
  /\ call[t].pc = "idle"
  /\ \E goal \in {ConcGoal(t)} :
     \E entries \in {memory[Shared] \o OpeningTurns(tools, goal)} :
     \E d0 \in {SetKey(Reset(state[Shared]), "input", goal)} :
     \E c0 \in {[IdleCall EXCEPT !.goal = goal, !.base = Len(memory[Shared]),
                                 !.reg = tools, !.nth = 1]} :
     \E nxt \in {ConcContinue(c0, d0, entries)} :
         /\ memory' = [memory EXCEPT ![Shared] = entries]
         /\ state' = [state EXCEPT ![Shared] = nxt.d]
         /\ call' = [call EXCEPT ![t] = nxt.c]
  /\ UNCHANGED <<pure_call, earlier, max_iterations, tools, has_llm_client,
                 client, llm_log, dispatched>>

\* the awaited model call fails
ConcLlmRaises(t) ==
  /\ call[t].pc = "awaiting_llm"
  /\ llm_log' = [llm_log EXCEPT ![t] = Append(@, [ok |-> FALSE, text |-> <<>>,
                                   messages |-> call[t].messages])]
  /\ call' = [call EXCEPT ![t] = LlmFailure(call[t])]
  /\ UNCHANGED <<pure_call, earlier, max_iterations, tools, has_llm_client,
                 client, memory, state, dispatched>>

\* variant: the task is suspended once more after it has appended the
\* assistant turn, before it sets response and is_complete
ConcAnswerSuspends(t) ==
  /\ call[t].pc = "awaiting_llm"
  /\ \E text \in ConcCompletions(t) :
     /\ llm_log' = [llm_log EXCEPT ![t] =
                       Append(@, [ok |-> TRUE, text |-> text,
                                  messages |-> call[t].messages])]
     /\ IsAnswerAsync(text)
     /\ memory' = [memory EXCEPT ![Shared] =
                     Append(@, Turn("assistant", text, call[t].iterations, <<>>))]
     /\ call' = [call EXCEPT ![t].pc = "appended"]
  /\ UNCHANGED <<pure_call, earlier, max_iterations, tools, has_llm_client,
                 client, state, dispatched>>

\* the completion is the final answer: assistant turn, response,
\* is_complete, break, return
ConcAnswer(t) ==
  /\ call[t].pc = "awaiting_llm"
  /\ \E text \in ConcCompletions(t) :
     /\ llm_log' = [llm_log EXCEPT ![t] =
                       Append(@, [ok |-> TRUE, text |-> text,
                                  messages |-> call[t].messages])]
     /\ IsAnswerAsync(text)
     /\ \E d \in {SetKey(SetKey(state[Shared], "response", ExtractAnswer(text)),
                         "is_complete", TRUE)} :
        \E fin \in {ConcFinish(call[t], d)} :
            /\ memory' = [memory EXCEPT ![Shared] =
                            Append(@, Turn("assistant", text, call[t].iterations, <<>>))]
            /\ state' = [state EXCEPT ![Shared] = fin.d]
            /\ call' = [call EXCEPT ![t] = fin.c]
  /\ UNCHANGED <<pure_call, earlier, max_iterations, tools, has_llm_client,
                 client, dispatched>>

\* the completion holds a tool call: assistant turn, _call_tool_async,
\* observation turn, then the loop test
ConcToolCall(t) ==
  /\ call[t].pc = "awaiting_llm"
  /\ \E text \in ConcCompletions(t), outcome \in ToolOutcomes :
     /\ llm_log' = [llm_log EXCEPT ![t] =
                       Append(@, [ok |-> TRUE, text |-> text,
                                  messages |-> call[t].messages])]
     /\ ~IsAnswerAsync(text)
     /\ ParseToolCall(text).found
     /\ \E c \in {call[t]}, name \in {ParseToolCall(text).tool} :
        \E obs \in {CallToolAsync(tools, name, outcome)} :
        \E entries \in {memory[Shared] \o StepTurns(text, obs.text, c.iterations, name)} :
        \E nxt \in {ConcContinue(c, state[Shared], entries)} :
            /\ Registered(tools, name) \/ outcome = CHOOSE o \in ToolOutcomes : TRUE
            /\ dispatched' = [dispatched EXCEPT ![t] =
                 Append(@, [tool |-> name,
                            params |-> ParseToolCall(text).params,
                            id |-> IF Registered(tools, name)
                                   THEN Lookup(tools, name).id ELSE 0,
                            outcome |-> outcome])]
            /\ memory' = [memory EXCEPT ![Shared] = entries]
            /\ state' = [state EXCEPT ![Shared] = nxt.d]
            /\ call' = [call EXCEPT ![t] = nxt.c]
  /\ UNCHANGED <<pure_call, earlier, max_iterations, tools, has_llm_client, client>>

\* neither an answer nor a tool call: the fallback and break on the last
\* iteration, otherwise the loop test
ConcNoAction(t) ==
  /\ call[t].pc = "awaiting_llm"
  /\ \E text \in ConcCompletions(t) :
     /\ llm_log' = [llm_log EXCEPT ![t] =
                       Append(@, [ok |-> TRUE, text |-> text,
                                  messages |-> call[t].messages])]
     /\ ~IsAnswerAsync(text)
     /\ ~ParseToolCall(text).found
     /\ \E c \in {call[t]} :
        \E entries \in {Append(memory[Shared], Turn("assistant", text, c.iterations, <<>>))} :
        \E nxt \in {IF c.iterations >= max_iterations
                    THEN ConcFinish(c, SetKey(SetKey(state[Shared], "response", Fallback),
                                              "is_complete", TRUE))
                    ELSE ConcContinue(c, state[Shared], entries)} :
            /\ memory' = [memory EXCEPT ![Shared] = entries]
            /\ state' = [state EXCEPT ![Shared] = nxt.d]
            /\ call' = [call EXCEPT ![t] = nxt.c]
  /\ UNCHANGED <<pure_call, earlier, max_iterations, tools, has_llm_client,
                 client, dispatched>>

\* one agent object with two tools, no call made yet
ConcInit ==
  /\ max_iterations \in 0..MaxIter
  /\ client = "script"
  /\ tools = BuildRegistry(<<Tool("calc", 1), Tool("search", 2)>>)
  /\ has_llm_client \in BOOLEAN
  /\ memory = [a \in {Shared} |-> <<>>]
  /\ state = [a \in {Shared} |-> FreshState]
  /\ call = [t \in ConcTasks |-> IdleCall]
  /\ llm_log = [t \in ConcTasks |-> <<>>]
  /\ dispatched = [t \in ConcTasks |-> <<>>]
  /\ earlier = <<>>
  /\ pure_call = NoPureCall

ConcNext ==
  \E t \in ConcTasks :
    \/ ConcCall(t)
    \/ ConcLlmRaises(t)
    \/ ConcAnswer(t)
    \/ ConcToolCall(t)
    \/ ConcNoAction(t)

ConcSpec == ConcInit /\ [][ConcNext]_vars

(* ------------------------- vocabulary of the claims ------------------- *)

CountRole(turns, role) == Cardinality({i \in 1..Len(turns) : turns[i].role = role})

\* model calls the activation has made: those that ended and the one in flight
ModelCalls(t) ==
  Len(llm_log[t]) + (IF call[t].pc = "awaiting_llm" THEN 1 ELSE 0)

\* a completion with `Answer:` and without `Action:`
HasAnswerOnly(text) ==
  (\E i \in 1..Len(text) : text[i] = "Answer:")
    /\ (\A i \in 1..Len(text) : text[i] # "Action:")

\* a completion with `Action:`, optional whitespace and an identifier
HasActionIdent(text) ==
  \E i \in 1..Len(text) :
    /\ text[i] = "Action:"
    /\ \E p \in (i + 1)..Len(text) :
         /\ \A j \in (i + 1)..(p - 1) : text[j] \in {" ", "\n"}
         /\ text[p] \in Words \cup Markers \cup {"Action Input:", "y\""}

\* the text after the first `Answer:` up to the next `Thought:` or the
\* end, without leading and trailing whitespace
RECURSIVE Trimmed(_)
Trimmed(text) ==
  IF text = <<>> THEN text
  ELSE IF Head(text) \in {" ", "\n"} THEN Trimmed(Tail(text))
  ELSE IF text[Len(text)] \in {" ", "\n"}
       THEN Trimmed(SubSeq(text, 1, Len(text) - 1))
  ELSE text

AnswerText(text) ==
  LET i == CHOOSE j \in 1..Len(text) :
             text[j] = "Answer:" /\ \A k \in 1..(j - 1) : text[k] # "Answer:"
      stops == {j \in (i + 1)..Len(text) : text[j] = "Thought:"} \cup {Len(text) + 1}
      t == CHOOSE j \in stops : \A k \in stops : j <= k
  IN  Trimmed(SubSeq(text, i + 1, t - 1))

\* the completions the model client has returned to run
RunLog == llm_log["run"]

\* positions of the completions of run that are final answers
Finals == {k \in 1..Len(RunLog) : RunLog[k].ok /\ HasAnswerOnly(RunLog[k].text)}

(* ------------------------------- claims ------------------------------- *)

\* C1: whatever max_iterations is and whatever the completions and the
\* tool outcomes are, run eventually returns a string to its caller,
\* unless a model call failed: no parse result and no tool error makes it
\* raise or run on for ever.
C1_RunReturns ==
  <>(\/ call["run"].pc = "returned" /\ call["run"].ret # None
     \/ call["run"].error = "llm")

\* run has returned although a registered tool raised and an unknown tool
\* was asked for during the run
C1_Witness ==
  /\ call["run"].pc = "returned"
  /\ call["run"].ret # None
  /\ \E i \in 1..Len(dispatched["run"]) :
       dispatched["run"][i].id # 0 /\ ~dispatched["run"][i].outcome.ok
  /\ \E i \in 1..Len(dispatched["run"]) : dispatched["run"][i].id = 0

\* C2 (as claimed): in every state of a call, 0 <= iterations <=
\* max_iterations, the model calls made so far are as many as the counter,
\* and the tool dispatches are at most as many.
C2_CounterBounds ==
  \A t \in Tasks :
    /\ 0 <= call[t].iterations
    /\ call[t].iterations <= max_iterations
    /\ ModelCalls(t) = call[t].iterations
    /\ Len(dispatched[t]) <= call[t].iterations

\* C3: a completion with `Answer:` and without `Action:` completes the
\* synchronous run in its iteration, and the response is the text after
\* the first `Answer:` up to the next `Thought:` or the end, trimmed.
C3_AnswerExtracted ==
  \A k \in Finals :
    /\ k = Len(RunLog)
    /\ call["run"].iterations = k
    /\ call["run"].pc \in {"loop_exit", "returned"}
    /\ IsComplete(state["a1"])
    /\ state["a1"]["response"] = AnswerText(RunLog[k].text)

\* the run has completed on a completion whose answer is surrounded by
\* whitespace and followed by a Thought: section
C3_Witness ==
  /\ Finals # {}
  /\ LET text == RunLog[Len(RunLog)].text
     IN  /\ \E i \in 1..Len(text) : text[i] = "Thought:" /\
              \E j \in 1..(i - 1) : text[j] = "Answer:"
         /\ \E i \in 2..Len(text) : text[i] = "\n" /\ text[i - 1] = "Answer:"
  /\ state["a1"]["response"] = <<"4">>

\* C4: when the k-th completion is the first final answer, run returns
\* that answer after exactly k iterations, k model calls and k assistant
\* turns, and its tool dispatches are as many as the tool actions among
\* the first k-1 completions.
C4_ReturnsAtFirstFinal ==
  (call["run"].pc = "returned" /\ Finals # {}) =>
    LET k == CHOOSE j \in Finals : \A i \in Finals : j <= i
    IN  /\ call["run"].ret = AnswerText(RunLog[k].text)
        /\ call["run"].iterations = k
        /\ Len(RunLog) = k
        /\ CountRole(RunTurns("run"), "assistant") = k
        /\ Len(dispatched["run"]) =
             Cardinality({j \in 1..(k - 1) : HasActionIdent(RunLog[j].text)})

\* run has returned the answer of its second completion after one dispatch
C4_Witness ==
  /\ call["run"].pc = "returned"
  /\ Finals = {2}
  /\ Len(dispatched["run"]) = 1
  /\ call["run"].ret = <<"4">>
  /\ call["run"].iterations = 2

\* C5: when none of the first max_iterations completions is a final
\* answer, run returns the fallback string after exactly max_iterations
\* iterations, with exactly max_iterations assistant turns appended.
C5_FallbackAtBudget ==
  (call["run"].pc = "returned" /\ Finals = {}) =>
    /\ call["run"].ret = Fallback
    /\ call["run"].iterations = max_iterations
    /\ Len(RunLog) = max_iterations
    /\ CountRole(RunTurns("run"), "assistant") = max_iterations

\* run has returned the fallback after two iterations, one with a tool
\* action and one unparseable
C5_Witness ==
  /\ call["run"].pc = "returned"
  /\ call["run"].ret = Fallback
  /\ max_iterations = 2
  /\ CountRole(RunTurns("run"), "assistant") = 2
  /\ CountRole(RunTurns("run"), "observation") = 1

\* the completion a step of run has just received, if it received one
RunGot == Len(llm_log["run"]') = Len(llm_log["run"]) + 1

RunGotText == llm_log["run"]'[Len(llm_log["run"]')]

\* the names of all registered tools stand in the text after the lexeme
\* that announces them
ListsAllTools(content) ==
  \E p \in 1..Len(content) :
    /\ content[p] = "' not found. Available tools: "
    /\ \A i \in 1..Len(tools) :
         \E q \in (p + 1)..Len(content) : <<content[q]>> = tools[i].name

\* C6: a parsed action that names a tool absent from the registry gets an
\* observation that lists all registered tools; the observation is
\* appended as an observation turn after the assistant turn, the run is
\* not marked complete, and when iterations remain the next model call
\* is made.
C6_UnknownToolObserved ==
  [][ (/\ RunGot /\ RunGotText.ok
       /\ ~HasAnswerOnly(RunGotText.text)
       /\ HasActionIdent(RunGotText.text)
       /\ \A i \in 1..Len(tools) :
            tools[i].name # ParseToolCall(RunGotText.text).tool)
      => /\ Len(memory'["a1"]) = Len(memory["a1"]) + 2
         /\ SubSeq(memory'["a1"], 1, Len(memory["a1"])) = memory["a1"]
         /\ LET a == memory'["a1"][Len(memory["a1"]) + 1]
                o == memory'["a1"][Len(memory["a1"]) + 2]
            IN  /\ a.role = "assistant" /\ a.content = RunGotText.text
                /\ o.role = "observation" /\ ListsAllTools(o.content)
         /\ ~IsComplete(state'["a1"])
         /\ call'["run"].pc \in {"awaiting_llm", "loop_exit"}
         /\ call["run"].iterations < max_iterations
              => /\ call'["run"].pc = "awaiting_llm"
                 /\ call'["run"].iterations = call["run"].iterations + 1
    ]_vars

\* after an action on an unknown tool, with two tools registered, the
\* observation is the last message of the model call of iteration 2
C6_Witness ==
  /\ Len(tools) = 2
  /\ call["run"].pc = "awaiting_llm"
  /\ call["run"].iterations = 2
  /\ LET o == memory["a1"][Len(memory["a1"])]
     IN  /\ o.role = "observation"
         /\ ListsAllTools(o.content)
         /\ call["run"].messages[Len(call["run"].messages)].content = o.content

\* the dispatch that a step of t has just made raised inside the tool call
DispatchRaised(t) ==
  /\ Len(dispatched'[t]) = Len(dispatched[t]) + 1
  /\ LET d == dispatched'[t][Len(dispatched'[t])]
     IN  /\ d.id # 0
         /\ IF t = "run" THEN ~d.outcome.ok
            ELSE ~HasExecuteAsync \/ ~d.outcome.ok

\* C7: an exception raised while a registered tool is dispatched is
\* caught: the dispatcher returns a string that starts with the error
\* prefix, it is appended as the observation, neither the dispatcher nor
\* the run raises, and the loop goes on with the next iteration.
C7_ToolErrorsObserved ==
  [][ \A t \in Tasks :
        DispatchRaised(t)
        => LET mem == memory'[AgentOf(t)]
           IN  /\ Len(mem) = Len(memory[AgentOf(t)]) + 2
               /\ mem[Len(mem)].role = "observation"
               /\ mem[Len(mem)].content[1] = "Error"
               /\ call'[t].pc \in {"awaiting_llm", "loop_exit"}
               /\ call[t].iterations < max_iterations
                    => /\ call'[t].pc = "awaiting_llm"
                       /\ call'[t].iterations = call[t].iterations + 1
    ]_vars

\* a registered tool has raised in iteration 1 of run, its error is the
\* last turn, and the model call of iteration 2 is under way
C7_Witness ==
  /\ call["run"].pc = "awaiting_llm"
  /\ call["run"].iterations = 2
  /\ Len(dispatched["run"]) = 1
  /\ dispatched["run"][1].id # 0
  /\ ~dispatched["run"][1].outcome.ok
  /\ memory["a1"][Len(memory["a1"])].content
       = <<"Error", " executing tool '", "calc", "': ", "boom">>

\* C8: a failure of the model call at iteration k leaves the run at once:
\* no assistant turn is appended for iteration k, nothing is returned, and
\* after it the activation makes no model call, no dispatch and no change
\* to the transcript or the loop state.
C8_LlmFailurePropagates ==
  [][ \A t \in Tasks :
        /\ (/\ Len(llm_log'[t]) = Len(llm_log[t]) + 1
            /\ ~llm_log'[t][Len(llm_log'[t])].ok)
           => /\ call'[t].pc = "raised"
              /\ call'[t].ret = None
              /\ call'[t].iterations = call[t].iterations
              /\ memory'[AgentOf(t)] = memory[AgentOf(t)]
              /\ state'[AgentOf(t)] = state[AgentOf(t)]
              /\ dispatched'[t] = dispatched[t]
              /\ CountRole(RunTurns(t), "assistant") = call[t].iterations - 1
        /\ (call[t].pc = "raised" /\ call'[t].nth = call[t].nth)
           => /\ call'[t] = call[t]
              /\ memory'[AgentOf(t)] = memory[AgentOf(t)]
              /\ state'[AgentOf(t)] = state[AgentOf(t)]
              /\ llm_log'[t] = llm_log[t]
              /\ dispatched'[t] = dispatched[t]
    ]_vars

\* the model call of iteration 2 of run has failed: one assistant turn,
\* nothing returned, no response in the loop state
C8_Witness ==
  /\ call["run"].pc = "raised"
  /\ call["run"].error = "llm"
  /\ call["run"].iterations = 2
  /\ CountRole(RunTurns("run"), "assistant") = 1
  /\ call["run"].ret = None
  /\ "response" \notin DOMAIN state["a1"]

\* C9 (as claimed): in the synchronous run a completion with both
\* `Answer:` and `Action:` is a tool action: a tool is dispatched in that
\* iteration and the completion does not complete the run.
C9_ActionAlwaysDispatched ==
  [][ (/\ RunGot /\ RunGotText.ok
       /\ Contains(RunGotText.text, "Answer:")
       /\ Contains(RunGotText.text, "Action:"))
      => /\ Len(dispatched'["run"]) = Len(dispatched["run"]) + 1
         /\ ~IsComplete(state'["a1"])
    ]_vars

\* C9 (amended): in the synchronous run a completion with both `Answer:`
\* and `Action:` is never taken as a final answer.  When its `Action:` is
\* followed by an identifier, one tool is dispatched in that iteration and
\* the run stays incomplete; otherwise no tool is dispatched, and the run
\* is completed in that iteration only on the last allowed iteration, with
\* the fallback response.
C9_ActionBeforeAnswer ==
  [][ (/\ RunGot /\ RunGotText.ok
       /\ Contains(RunGotText.text, "Answer:")
       /\ Contains(RunGotText.text, "Action:"))
      => /\ "response" \in DOMAIN state'["a1"]
              => state'["a1"]["response"] = Fallback
         /\ HasActionIdent(RunGotText.text)
              => /\ Len(dispatched'["run"]) = Len(dispatched["run"]) + 1
                 /\ ~IsComplete(state'["a1"])
         /\ ~HasActionIdent(RunGotText.text)
              => /\ dispatched'["run"] = dispatched["run"]
                 /\ IsComplete(state'["a1"])
                      <=> call["run"].iterations >= max_iterations
    ]_vars

\* the completion `Answer: 4 / Action: calc` has led to a dispatch of the
\* registered tool calc, and the run is not complete
C9_Witness ==
  /\ Len(RunLog) = 1
  /\ RunLog[1].ok
  /\ RunLog[1].text = <<"Answer:", " ", "4", "\n", "Action:", " ", "calc">>
  /\ Len(dispatched["run"]) = 1
  /\ dispatched["run"][1].id # 0
  /\ ~IsComplete(state["a1"])
  /\ memory["a1"][Len(memory["a1"])].role = "observation"

\* C10 (as claimed): for the same goal, the same completions and the same
\* tools, run_async ends as run ends: it returns the same string and has
\* appended the same turns, by role and content.
C10_SameContract ==
  (/\ call["run"].pc = "returned"
   /\ call["run_async"].pc \in {"returned", "raised"})
  => /\ call["run_async"].pc = "returned"
     /\ call["run_async"].ret = call["run"].ret
     /\ RoleContent(RunTurns("run_async")) = RoleContent(RunTurns("run"))

(* ---------------------- claims on _parse_tool_call -------------------- *)

\* the identifier that follows the first `Action:` that has one
ActionIdent(text) ==
  LET at(j) == /\ text[j] = "Action:"
               /\ \E p \in (j + 1)..Len(text) :
                    /\ \A k \in (j + 1)..(p - 1) : text[k] \in {" ", "\n"}
                    /\ text[p] \in Words \cup Markers \cup {"Action Input:", "y\""}
      i == CHOOSE j \in 1..Len(text) :
             at(j) /\ \A k \in 1..(j - 1) : ~at(k)
  IN  WordRun(text, SkipWS(text, i + 1))

\* positions of the `Action Input:` markers that are followed, after
\* optional whitespace, by a syntactically valid JSON object
ObjectsAfterInput(text) ==
  {i \in 1..Len(text) :
     /\ text[i] = "Action Input:"
     /\ \E p \in (i + 1)..Len(text) :
          /\ \A j \in (i + 1)..(p - 1) : text[j] \in {" ", "\n"}
          /\ text[p] = "{"
          /\ JsonValue(text, p).ok}

\* the first of these objects, parsed
ObjectAfterInput(text) ==
  LET i == CHOOSE j \in ObjectsAfterInput(text) :
             \A k \in ObjectsAfterInput(text) : j <= k
      p == CHOOSE q \in (i + 1)..Len(text) :
             text[q] = "{" /\ \A j \in (i + 1)..(q - 1) : text[j] \in {" ", "\n"}
  IN  JsonValue(text, p).val[2]

\* C11 (as claimed): for a completion with `Action: toolX` and a valid
\* JSON object after `Action Input:`, nested objects and closing braces
\* inside strings included, _parse_tool_call returns tool = toolX and
\* params equal to that whole object parsed.
C11_WholeObjectParsed ==
  (/\ pure_call.fn = "_parse_tool_call"
   /\ HasActionIdent(pure_call.input)
   /\ ObjectsAfterInput(pure_call.input) # {})
  => /\ pure_call.output.found
     /\ pure_call.output.tool = ActionIdent(pure_call.input)
     /\ pure_call.output.params = ObjectAfterInput(pure_call.input)

\* the lines of a text
LinesOf(text) ==
  LET nl == <<0>> \o SelectSeq([j \in 1..Len(text) |-> IF text[j] = "\n" THEN j ELSE 0],
                               LAMBDA j : j > 0)
             \o <<Len(text) + 1>>
  IN  [n \in 1..(Len(nl) - 1) |-> SubSeq(text, nl[n] + 1, nl[n + 1] - 1)]

\* the position of the first lexeme of a line that holds a colon, 0 if none
FirstColon(line) ==
  IF \A j \in 1..Len(line) : line[j] \notin {":", "Action Input:", "Answer:", "Action:", "Thought:"}
  THEN 0
  ELSE CHOOSE j \in 1..Len(line) :
         /\ line[j] \in {":", "Action Input:", "Answer:", "Action:", "Thought:"}
         /\ \A k \in 1..(j - 1) :
              line[k] \notin {":", "Action Input:", "Answer:", "Action:", "Thought:"}

\* the trimmed text before the first colon of a line, and the trimmed rest
KeyOf(line) ==
  Trimmed(SubSeq(line, 1, FirstColon(line) - 1) \o BeforeColon(line[FirstColon(line)]))

ValueOf(line) == Trimmed(SubSeq(line, FirstColon(line) + 1, Len(line)))

\* the mapping the lines of a text give: one key per line with a colon,
\* bound to the value of the last line with that key
LineMapping(text) ==
  LET ls == LinesOf(text)
      with == {n \in 1..Len(ls) : FirstColon(ls[n]) > 0}
  IN  [k \in {KeyOf(ls[n]) : n \in with} |->
         LET last == CHOOSE n \in with :
                       KeyOf(ls[n]) = k /\ \A m \in with : KeyOf(ls[m]) = k => m <= n
         IN  <<"str", ValueOf(ls[last])>>]

\* C12: when the span captured after `Action Input:` is not valid JSON,
\* _parse_tool_call returns an action with the same tool name and the
\* mapping built line by line from the span: each line with a colon gives
\* the trimmed text before its first colon as key and the trimmed rest as
\* value; the mapping may be empty.
C12_FallbackMapping ==
  (/\ pure_call.fn = "_parse_tool_call"
   /\ HasActionIdent(pure_call.input)
   /\ InputMatches(pure_call.input) # {}
   /\ ~JsonLoads(InputGroup(pure_call.input)).ok)
  => /\ pure_call.output.found
     /\ pure_call.output.tool = ActionIdent(pure_call.input)
     /\ pure_call.output.params = LineMapping(InputGroup(pure_call.input))

\* the parser has returned the mapping of a span of five lines: two lines
\* without a colon, a key given twice and a value that holds a colon
C12_Witness ==
  /\ pure_call.fn = "_parse_tool_call"
  /\ InputMatches(pure_call.input) # {}
  /\ ~JsonLoads(InputGroup(pure_call.input)).ok
  /\ Len(LinesOf(InputGroup(pure_call.input))) = 5
  /\ pure_call.output.tool = <<"calc">>
  /\ DOMAIN pure_call.output.params = {<<"hm">>, <<"done">>}
  /\ pure_call.output.params[<<"hm">>] = <<"str", <<"calc">> >>
  /\ pure_call.output.params[<<"done">>] = <<"str", <<"4", ",", ":">> >>

(* ------------------------- claims on the loop ------------------------- *)

\* what a step of run that has received a completion did with it:
\* it completed the run with the answer of the completion,
RunBranchFinal ==
  /\ \E i \in 1..Len(RunGotText.text) : RunGotText.text[i] = "Answer:"
  /\ IsComplete(state'["a1"])
  /\ "response" \in DOMAIN state'["a1"]
  /\ state'["a1"]["response"] = AnswerText(RunGotText.text)
  /\ call'["run"].pc = "loop_exit"
  /\ dispatched'["run"] = dispatched["run"]
  /\ Len(memory'["a1"]) = Len(memory["a1"]) + 1

\* or it dispatched one tool and appended its observation,
RunBranchTool ==
  /\ Len(dispatched'["run"]) = Len(dispatched["run"]) + 1
  /\ Len(memory'["a1"]) = Len(memory["a1"]) + 2
  /\ memory'["a1"][Len(memory'["a1"])].role = "observation"
  /\ ~IsComplete(state'["a1"])

\* or it did neither: the run is completed only on the last allowed
\* iteration, with the fallback
RunBranchNeither ==
  /\ dispatched'["run"] = dispatched["run"]
  /\ Len(memory'["a1"]) = Len(memory["a1"]) + 1
  /\ IsComplete(state'["a1"]) <=> call["run"].iterations >= max_iterations
  /\ "response" \in DOMAIN state'["a1"]
       => /\ state'["a1"]["response"] = Fallback
          /\ call["run"].iterations >= max_iterations

\* C13: every completion is exactly one of final answer, tool action and
\* unparseable, so that each iteration takes exactly one of the three
\* branches; a completion with neither `Answer:` nor `Action: <identifier>`
\* is unparseable.
C13_ExactlyOneBranch ==
  [][ (RunGot /\ RunGotText.ok)
      => /\ RunBranchFinal \/ RunBranchTool \/ RunBranchNeither
         /\ ~(RunBranchFinal /\ RunBranchTool)
         /\ ~(RunBranchFinal /\ RunBranchNeither)
         /\ ~(RunBranchTool /\ RunBranchNeither)
         /\ (/\ \A i \in 1..Len(RunGotText.text) : RunGotText.text[i] # "Answer:"
             /\ ~HasActionIdent(RunGotText.text))
            => RunBranchNeither
    ]_vars

\* the first completion of a run of two iterations held neither marker:
\* one assistant turn, no dispatch, and the second model call is under way
C13_Witness ==
  /\ call["run"].pc = "awaiting_llm"
  /\ call["run"].iterations = 2
  /\ Len(RunLog) = 1
  /\ RunLog[1].text = <<"Thought:", " ", "hm">>
  /\ Len(RunTurns("run")) = 3
  /\ dispatched["run"] = <<>>
  /\ ~IsComplete(state["a1"])

\* the first final answer among the completions of the current run
FirstFinal == CHOOSE j \in Finals : \A i \in Finals : j <= i

\* C14: at the start of every run, before its first model call, the loop
\* state is reset to iteration 0, not complete, no response, whatever an
\* earlier run on the agent left; a run that follows a completed run
\* executes its loop, and what it returns comes from its own completions.
C14_ResetAtStart ==
  [][ /\ call'["run"].nth = call["run"].nth + 1
        => /\ ~IsComplete(state'["a1"])
           /\ "response" \notin DOMAIN state'["a1"]
           /\ call'["run"].ret = None
           /\ call'["run"].iterations = IF max_iterations >= 1 THEN 1 ELSE 0
           /\ max_iterations >= 1 => call'["run"].pc = "awaiting_llm"
           /\ llm_log'["run"] = <<>>
      /\ (call'["run"].pc = "returned" /\ call["run"].pc # "returned")
        => call'["run"].ret =
             IF Finals # {} THEN AnswerText(RunLog[FirstFinal].text) ELSE Fallback
    ]_vars

\* the second run on an agent whose first run completed with an answer
\* has run its loop and returned the fallback
C14_Witness ==
  /\ call["run"].nth = 2
  /\ call["run"].pc = "returned"
  /\ call["run"].ret = Fallback
  /\ Len(RunLog) = 1
  /\ earlier[1].ret = <<"4">>
  /\ IsComplete(earlier[1].state)

\* the model client behaved as a function of the turns submitted to it,
\* and the tools as functions of their arguments, over the two runs
Deterministic ==
  LET calls == earlier[1].log \o RunLog
      disp == earlier[1].dispatched \o dispatched["run"]
  IN  /\ \A i, j \in 1..Len(calls) :
           RoleContent(calls[i].messages) = RoleContent(calls[j].messages)
             => calls[i].ok = calls[j].ok /\ calls[i].text = calls[j].text
      /\ \A i, j \in 1..Len(disp) :
           (disp[i].id = disp[j].id /\ disp[i].params = disp[j].params)
             => disp[i].outcome = disp[j].outcome

\* C15 (as claimed): two calls of run on a fresh agent with the same goal
\* and a deterministic model client append the same turns, by role and
\* content.
C15_Idempotent ==
  (/\ call["run"].nth = 2
   /\ call["run"].pc = "returned"
   /\ earlier[1].pc = "returned"
   /\ earlier[1].goal = call["run"].goal
   /\ earlier[1].reg = call["run"].reg
   /\ Deterministic)
  => RoleContent(RunTurns("run")) = earlier[1].turns

\* C17: every run appends one system turn and then one user turn that
\* holds the goal, before its first model call; all the other turns it
\* appends are assistant and observation turns.
C17_OpeningTurns ==
  \A t \in Tasks :
    call[t].pc # "idle" =>
      LET turns == RunTurns(t)
      IN  /\ Len(turns) >= 2
          /\ turns[1].role = "system"
          /\ turns[2].role = "user"
          /\ turns[2].content = call[t].goal
          /\ \A i \in 3..Len(turns) : turns[i].role \in {"assistant", "observation"}
          /\ (call[t].pc = "awaiting_llm" /\ call[t].iterations = 1)
               => /\ Len(turns) = 2
                  /\ Len(call[t].messages) >= 2
                  /\ call[t].messages[Len(call[t].messages) - 1].role = "system"
                  /\ call[t].messages[Len(call[t].messages)].content = call[t].goal

\* a run has returned after a tool call and an answer: system, user,
\* assistant, observation, assistant
C17_Witness ==
  /\ call["run"].pc = "returned"
  /\ [i \in 1..Len(RunTurns("run")) |-> RunTurns("run")[i].role]
       = <<"system", "user", "assistant", "observation", "assistant">>

\* the tool names a system prompt lists
ListedNames(content) ==
  {<<content[i + 1]>> : i \in {j \in 1..(Len(content) - 1) : content[j] = "Tool: "}}

\* C18: the system turn a run appends lists exactly the tool names
\* registered when that run started, also when the registry has changed
\* since the run before.
C18_PromptFromRegistry ==
  call["run"].pc # "idle" =>
    /\ RunTurns("run")[1].role = "system"
    /\ ListedNames(RunTurns("run")[1].content)
         = {call["run"].reg[i].name : i \in 1..Len(call["run"].reg)}

\* the second run started on a registry that differs from the one of the
\* first run, and its system turn lists other names
C18_Witness ==
  /\ call["run"].nth = 2
  /\ earlier[1].reg # call["run"].reg
  /\ Len(call["run"].reg) = 2
  /\ ListedNames(RunTurns("run")[1].content) = {<<"calc">>, <<"search">>}
  /\ ListedNames(earlier[1].turns[1][2]) # {<<"calc">>, <<"search">>}

\* the entries a step has appended to the memory of agent a
AppendedBy(a) == SubSeq(memory'[a], Len(memory[a]) + 1, Len(memory'[a]))

\* C19: an iteration dispatches at most one tool and appends at most one
\* observation turn, even when the completion names several actions; an
\* observation turn directly follows the assistant turn of its iteration.
C19_OneActionPerIteration ==
  [][ \A t \in Tasks :
        LET new == AppendedBy(AgentOf(t))
        IN  /\ Len(dispatched'[t]) <= Len(dispatched[t]) + 1
            /\ Cardinality({i \in 1..Len(new) : new[i].role = "observation"}) <= 1
            /\ \A i \in 1..Len(new) :
                 new[i].role = "observation"
                   => /\ i > 1
                      /\ new[i - 1].role = "assistant"
                      /\ new[i - 1].step = new[i].step
                      /\ Len(dispatched'[t]) = Len(dispatched[t]) + 1
    ]_vars

\* a completion that names two actions has led to one dispatch, of the
\* first tool it names, and to one observation
C19_Witness ==
  /\ Len(RunLog) = 1
  /\ RunLog[1].text = <<"Action:", " ", "search", "\n", "Action:", " ", "calc">>
  /\ Len(dispatched["run"]) = 1
  /\ dispatched["run"][1].tool = <<"search">>
  /\ CountRole(RunTurns("run"), "observation") = 1
  /\ CountRole(RunTurns("run"), "assistant") = 1

\* C20: in the iteration whose completion is a final answer no tool is
\* dispatched and nothing is appended after the assistant turn: that turn
\* is the last one of the run, and no model call follows it.
C20_AnswerEndsRun ==
  Finals # {} =>
    LET k == Len(RunLog)
        turns == RunTurns("run")
    IN  /\ Finals = {k}
        /\ ModelCalls("run") = k
        /\ call["run"].pc \in {"loop_exit", "returned"}
        /\ turns[Len(turns)].role = "assistant"
        /\ turns[Len(turns)].content = RunLog[k].text
        /\ turns[Len(turns)].step = k
        /\ \A i \in 1..(Len(turns) - 1) : turns[i].step # k
        /\ Len(dispatched["run"]) = CountRole(turns, "observation")

\* the loop has ended on the answer of the second completion, after the
\* tool call of the first: the assistant turn of the answer is the last
C20_Witness ==
  /\ call["run"].pc = "loop_exit"
  /\ Finals = {2}
  /\ CountRole(RunTurns("run"), "observation") = 1
  /\ RunTurns("run")[Len(RunTurns("run"))].role = "assistant"
  /\ RunTurns("run")[Len(RunTurns("run"))].step = 2

\* the lines of the Args section of a docstring as it reads: those after
\* the header `Args:` up to the next blank line, section header or the end
ArgsLines(doc) ==
  LET heads == {h \in 1..Len(doc) : doc[h].txt = <<"Args:">>}
      h == Min(heads)
      stops == {e \in (h + 1)..Len(doc) :
                  \/ IsBlank(doc[e])
                  \/ Len(doc[e].txt) = 1
                       /\ doc[e].txt[1] \in SectionNames \cup LookaheadWords}
  IN  IF heads = {} THEN <<>>
      ELSE SubSeq(doc, h + 1, IF stops = {} THEN Len(doc) ELSE Min(stops) - 1)

\* a line of the form `name (type): description`
IsArgForm(t) ==
  /\ Len(t) >= 8
  /\ t[2] = " " /\ t[3] = "(" /\ t[5] = ")" /\ t[6] = ":" /\ t[7] = " "

\* the Args section lists each parameter of the function, once, in that form
ListsEachParameter(func, doc) ==
  LET ls == ArgsLines(doc)
  IN  /\ Len(ls) = Len(func.params)
      /\ \A i \in 1..Len(ls) : IsArgForm(ls[i].txt)
      /\ {<<ls[i].txt[1]>> : i \in 1..Len(ls)}
           = {func.params[i].name : i \in 1..Len(func.params)}

\* the name of the annotated type of a parameter
AnnotationOf(func, name) ==
  LET i == CHOOSE j \in 1..Len(func.params) : func.params[j].name = name
  IN  func.params[i].annotation

\* one entry per line of the Args section, in the order of the docstring
ListedArgs(func, doc) ==
  LET ls == ArgsLines(doc)
  IN  [i \in 1..Len(ls) |->
         [arg_name |-> <<ls[i].txt[1]>>,
          arg_type |-> AnnotationOf(func, <<ls[i].txt[1]>>),
          arg_desc |-> SubSeq(ls[i].txt, 8, Len(ls[i].txt))]]

\* the text of the lines of the first paragraph of a docstring: from its
\* first line with text up to the next blank line
FirstParagraph(doc) ==
  LET texts == {i \in 1..Len(doc) : ~IsBlank(doc[i])}
      f == Min(texts)
      stops == {e \in (f + 1)..Len(doc) : IsBlank(doc[e])}
      l == IF stops = {} THEN Len(doc) ELSE Min(stops) - 1
  IN  IF texts = {} THEN <<>> ELSE [i \in 1..(l - f + 1) |-> doc[f + i - 1].txt]

\* the text of the lines of a description
TextOf(ls) == [i \in 1..Len(ls) |-> ls[i].txt]

\* C16 (as claimed): for a function whose Google-style docstring lists each
\* parameter in its Args section as `name (type): description`, parse
\* returns the function name, the first paragraph of the docstring as the
\* description, and one argument per parameter, in the order of the
\* docstring, with its name, the name of its annotated type and its
\* description.
C16_DocstringParsed ==
  (/\ pure_call.fn = "parse"
   /\ ListsEachParameter(pure_call.input.func, pure_call.input.doc))
  => /\ pure_call.output.name = pure_call.input.func.name
     /\ TextOf(pure_call.output.description) = FirstParagraph(pure_call.input.doc)
     /\ pure_call.output.args
          = ListedArgs(pure_call.input.func, pure_call.input.doc)

(* --------------------- claims on the steps of the loop ---------------- *)

\* a completion that is neither a final answer nor a tool action
Unparseable(text) == ~HasAnswerOnly(text) /\ ~HasActionIdent(text)

\* C21: when a completion is unparseable, on an iteration before the last
\* one the run stays incomplete, appends nothing but the assistant turn
\* and goes on to the next iteration; on the last allowed iteration the
\* response is the budget-exhausted fallback and the run is complete.
C21_UnparseableStep ==
  [][ (RunGot /\ RunGotText.ok /\ Unparseable(RunGotText.text))
      => /\ AppendedBy("a1")
              = <<Turn("assistant", RunGotText.text, call["run"].iterations, <<>>)>>
         /\ dispatched'["run"] = dispatched["run"]
         /\ IF call["run"].iterations < max_iterations
            THEN /\ ~IsComplete(state'["a1"])
                 /\ "response" \notin DOMAIN state'["a1"]
                 /\ call'["run"].pc = "awaiting_llm"
                 /\ call'["run"].iterations = call["run"].iterations + 1
            ELSE /\ IsComplete(state'["a1"])
                 /\ state'["a1"]["response"] = Fallback
                 /\ call'["run"].pc = "loop_exit"
    ]_vars

\* two unparseable completions with max_iterations = 2: the first led to
\* the second model call, the second to the fallback
C21_Witness ==
  /\ max_iterations = 2
  /\ call["run"].pc = "loop_exit"
  /\ Len(RunLog) = 2
  /\ \A k \in 1..2 : RunLog[k].ok /\ Unparseable(RunLog[k].text)
  /\ [i \in 1..Len(RunTurns("run")) |-> RunTurns("run")[i].role]
       = <<"system", "user", "assistant", "assistant">>
  /\ state["a1"]["response"] = Fallback
  /\ IsComplete(state["a1"])

\* C22: at every iteration the turns submitted to the model client are
\* the last min(10, length) turns of the transcript at that moment, in the
\* order of the transcript; never more than 10 turns are submitted.
C22_RecentWindow ==
  \A t \in Tasks :
    call[t].pc = "awaiting_llm" =>
      LET mem == memory[AgentOf(t)]
          k == IF Len(mem) < 10 THEN Len(mem) ELSE 10
          sent == call[t].messages
      IN  /\ Len(sent) = k
          /\ Len(sent) <= 10
          /\ \A i \in 1..k :
               LET turn == mem[Len(mem) - k + i]
               IN  /\ sent[i].content = turn.content
                   /\ sent[i].step = turn.step
                   /\ sent[i].tool = turn.tool
                   /\ sent[i].role = turn.role
                        \/ (turn.role = "observation" /\ sent[i].role = "assistant")

\* a model call on a transcript of more than 10 turns: 10 are submitted,
\* the oldest turn is left out and the goal of this run is the last
C22_Witness ==
  /\ call["run"].pc = "awaiting_llm"
  /\ Len(memory["a1"]) > 10
  /\ Len(call["run"].messages) = 10
  /\ call["run"].messages[1].content = memory["a1"][Len(memory["a1"]) - 9].content
  /\ call["run"].messages[1].content # memory["a1"][1].content
  /\ call["run"].messages[10].content = call["run"].goal

\* s is a prefix of t
IsPrefix(s, t) == Len(s) <= Len(t) /\ SubSeq(t, 1, Len(s)) = s

\* C23: during run and run_async the transcript only grows by appending
\* at its end: every step leaves the turns already there as they are, in
\* place and in order, so the transcript of an earlier state is a prefix of
\* the transcript of every later state.
C23_AppendOnly ==
  [][\A a \in Agents : IsPrefix(memory[a], memory'[a])]_vars

\* two runs with a tool call each have ended on an agent that was given
\* a transcript: the earlier turns and those of the first run are in place
C23_Witness ==
  /\ call["run"].nth = 2
  /\ call["run"].pc = "returned"
  /\ Len(earlier) = 1
  /\ Len(earlier[1].dispatched) = 1
  /\ Len(dispatched["run"]) = 1
  /\ Len(memory["a1"]) = MaxPrior + 8
  /\ SubSeq(memory["a1"], 1, MaxPrior) = PriorTurns(MaxPrior)
  /\ RoleContent(SubSeq(memory["a1"], MaxPrior + 1, MaxPrior + 4)) = earlier[1].turns

\* the observation turns the activation t has appended
ObservationTurns(t) ==
  SelectSeq(RunTurns(t), LAMBDA e : e.role = "observation")

\* C24: the asynchronous dispatcher honours the contract of the
\* synchronous one: for a registered tool whose function succeeds on the
\* given arguments it returns `Observation: <stringified result>`, which
\* run_async appends as the observation of that dispatch.
C24_AsyncObservesSuccess ==
  \A k \in 1..Len(dispatched["run_async"]) :
    LET d == dispatched["run_async"][k]
    IN  (d.id # 0 /\ d.outcome.ok /\ Len(ObservationTurns("run_async")) >= k)
          => ObservationTurns("run_async")[k].content
               = <<"Observation: ">> \o d.outcome.val

(* ------------------- claims on concurrent calls ----------------------- *)

\* where a call of run_async can stand while another task runs: not yet
\* called, at the awaited model call, at the awaited tool call, or ended
SuspensionPoints == {"idle", "awaiting_llm", "awaiting_tool", "returned", "raised"}

\* C25: in run_async another task can run only at the awaited model call
\* and at the awaited tool call: every step is taken by one call and leads
\* it from its call or from an await to the next await or to its end, with
\* the assistant turn, the classification, response, is_complete and the
\* observation all inside that step; the other call is left as it is.
C25_SuspensionPoints ==
  [][\E t \in ConcTasks :
        /\ \A u \in ConcTasks \ {t} : call'[u] = call[u]
        /\ call[t].pc \in {"idle", "awaiting_llm", "awaiting_tool"}
        /\ call'[t].pc \in SuspensionPoints \ {"idle"}
        /\ \A u \in ConcTasks \ {t} :
             llm_log'[u] = llm_log[u] /\ dispatched'[u] = dispatched[u]
    ]_vars

\* a step of the first call that took the assistant turn, the tool
\* dispatch, the observation and the loop test at once, while the second
\* call stood at its model call
C25_Witness ==
  /\ call["first"].pc = "awaiting_llm"
  /\ call["first"].iterations = 2
  /\ call["second"].pc = "awaiting_llm"
  /\ call["second"].iterations = 1
  /\ Len(dispatched["first"]) = 1
  /\ Len(memory[Shared]) = 6
  /\ memory[Shared][5].role = "assistant"
  /\ memory[Shared][6].role = "observation"
  /\ ~IsComplete(state[Shared])

\* the step resumes call t with a completion of its model call
ConcGot(t) ==
  /\ call[t].pc = "awaiting_llm"
  /\ Len(llm_log'[t]) = Len(llm_log[t]) + 1

ConcGotText(t) == llm_log'[t][Len(llm_log'[t])]

\* the final answers the model client has returned to call t
AnswersTo(t) ==
  {ExtractAnswer(llm_log[t][k].text) :
     k \in {j \in 1..Len(llm_log[t]) :
              llm_log[t][j].ok /\ IsAnswerAsync(llm_log[t][j].text)}}

LastOfName(list, name) ==
  list[CHOOSE i \in 1..Len(list) :
         /\ list[i].name = name
         /\ \A j \in (i + 1)..Len(list) : list[j].name # name]

\* C27: when two tools of one name are given at construction the last
\* one wins: the registry holds one entry for each name given, and a
\* dispatch to a name invokes the tool that comes last in the list under
\* that name, never an earlier one.
C27_LastToolWins ==
  \A list \in ToolLists :
    (call["run"].pc # "idle" /\ call["run"].reg = BuildRegistry(list)) =>
      LET reg == call["run"].reg
      IN  /\ \A i \in 1..Len(list) :
               Cardinality({k \in 1..Len(reg) : reg[k].name = list[i].name}) = 1
          /\ \A k \in 1..Len(dispatched["run"]) :
               LET d == dispatched["run"][k]
               IN  d.id # 0 => d.id = LastOfName(list, d.tool).id

\* run on an agent constructed with two tools named calc has dispatched
\* calc: the second tool was invoked and its result observed
C27_Witness ==
  /\ call["run"].reg = BuildRegistry(<<Tool("calc", 1), Tool("calc", 2)>>)
  /\ Len(call["run"].reg) = 1
  /\ call["run"].pc = "returned"
  /\ Len(dispatched["run"]) = 2
  /\ \A k \in 1..2 : /\ dispatched["run"][k].tool = <<"calc">>
                     /\ dispatched["run"][k].id = 2
                     /\ dispatched["run"][k].outcome.ok
  /\ ObservationTurns("run")[2].content = <<"Observation: ", "4">>

(* --------------------- claims on the configuration -------------------- *)

\* C28: the configuration is validated at construction so that
\* max_iterations >= 1: no agent runs with max_iterations < 1, and every
\* run that returns has made at least one model call.
C28_ValidatedConfig ==
  \A t \in Tasks :
    /\ call[t].pc # "idle" => max_iterations >= 1
    /\ call[t].pc = "returned" => Len(llm_log[t]) >= 1

(* -------------------- claims on the arguments of a call --------------- *)

\* an `Action Input:` marker followed, after optional whitespace, by an
\* opening brace that has a closing brace somewhere after it
HasInputSpan(text) ==
  \E i \in 1..Len(text) :
    /\ text[i] = "Action Input:"
    /\ \E p \in (i + 1)..Len(text) :
         /\ \A j \in (i + 1)..(p - 1) : text[j] \in {" ", "\n"}
         /\ text[p] = "{"
         /\ \E q \in (p + 1)..Len(text) : text[q] = "}"

\* C29: a completion with `Action: <identifier>` and without an
\* `Action Input:` marker followed by a brace-delimited span is parsed to
\* that tool name with an empty argument mapping, and the tool is
\* dispatched with no arguments.
C29_NoInputNoArguments ==
  [][ (/\ RunGot /\ RunGotText.ok
       /\ HasActionIdent(RunGotText.text)
       /\ ~HasInputSpan(RunGotText.text))
      => /\ Len(dispatched'["run"]) = Len(dispatched["run"]) + 1
         /\ SubSeq(dispatched'["run"], 1, Len(dispatched["run"])) = dispatched["run"]
         /\ dispatched'["run"][Len(dispatched'["run"])].tool = ActionIdent(RunGotText.text)
         /\ dispatched'["run"][Len(dispatched'["run"])].params = <<>>
    ]_vars

\* `Action: calc` with an `Action Input:` whose brace is never closed:
\* calc was called without arguments and its result observed
C29_Witness ==
  /\ Len(RunLog) = 1
  /\ RunLog[1].ok
  /\ RunLog[1].text
       = <<"Action:", " ", "calc", "\n", "Action Input:", " ", "{", "\"a\"", ":", " ", "4">>
  /\ Len(dispatched["run"]) = 1
  /\ dispatched["run"][1].tool = <<"calc">>
  /\ dispatched["run"][1].params = <<>>
  /\ dispatched["run"][1].id # 0
  /\ dispatched["run"][1].outcome.ok
  /\ memory["a1"][Len(memory["a1"])].content = <<"Observation: ", "4">>

(* ------------------- claims on what the model is sent ----------------- *)

\* C30: an observation appended at iteration k < max_iterations is fed
\* back to the model: it is the last turn of the sequence submitted at
\* iteration k+1, sent with role assistant; every submitted turn has a
\* role in {system, user, assistant}.
C30_ObservationFedBack ==
  [][\A t \in Tasks :
       LET added == AppendedBy(AgentOf(t))
       IN  (/\ call[t].pc = "awaiting_llm"
            /\ call[t].iterations < max_iterations
            /\ added # <<>>
            /\ added[Len(added)].role = "observation")
           => /\ call'[t].pc = "awaiting_llm"
              /\ call'[t].iterations = call[t].iterations + 1
              /\ LET sent == call'[t].messages
                 IN  /\ sent # <<>>
                     /\ sent[Len(sent)].content = added[Len(added)].content
                     /\ sent[Len(sent)].tool = added[Len(added)].tool
                     /\ sent[Len(sent)].step = call[t].iterations
                     /\ sent[Len(sent)].role = "assistant"
                     /\ \A i \in 1..Len(sent) :
                          sent[i].role \in {"system", "user", "assistant"}
    ]_vars

\* the second model call of a run is pending: the observation of calc,
\* made at iteration 1, is the last message, with role assistant
C30_Witness ==
  /\ call["run"].pc = "awaiting_llm"
  /\ call["run"].iterations = 2
  /\ memory["a1"][Len(memory["a1"])].role = "observation"
  /\ memory["a1"][Len(memory["a1"])].step = 1
  /\ call["run"].messages[Len(call["run"].messages)]
       = [memory["a1"][Len(memory["a1"])] EXCEPT !.role = "assistant"]
  /\ call["run"].messages[Len(call["run"].messages)].content = <<"Observation: ", "4">>
  /\ Len(call["run"].messages) = 4

\* C31: at every iteration of a run the turns submitted to the model
\* client include the system turn and the user turn (the goal) that this
\* run appended, however many assistant and observation turns have been
\* appended since.
C31_OpeningTurnsSubmitted ==
  \A t \in Tasks :
    call[t].pc = "awaiting_llm" =>
      LET mem == memory[AgentOf(t)]
          sent == call[t].messages
          skipped == Len(mem) - Len(sent)
          base == call[t].base
      IN  /\ skipped <= base
          /\ sent[base + 1 - skipped] = mem[base + 1]
          /\ sent[base + 1 - skipped].role = "system"
          /\ sent[base + 2 - skipped] = mem[base + 2]
          /\ sent[base + 2 - skipped].role = "user"
          /\ sent[base + 2 - skipped].content = call[t].goal

(* ----------------------- claims on the loop state --------------------- *)

\* C32: in every state of a run, is_complete implies that a response is
\* set; when run or run_async has returned, is_complete is true and the
\* value returned is that response, which is the fallback string or the
\* answer extracted from the last completion of this run.
C32_CompleteHasResponse ==
  \A t \in Tasks :
    LET d == state[AgentOf(t)]
        log == llm_log[t]
    IN  /\ IsComplete(d) => "response" \in DOMAIN d
        /\ call[t].pc = "returned" =>
             /\ IsComplete(d)
             /\ call[t].ret = d["response"]
             /\ \/ call[t].ret = Fallback
                \/ /\ log # <<>>
                   /\ log[Len(log)].ok
                   /\ Contains(log[Len(log)].text, "Answer:")
                   /\ call[t].ret = AnswerText(log[Len(log)].text)

\* both methods have returned on the completion `Answer: 4 / Action: calc`
\* with max_iterations = 1: run the fallback, run_async the text after
\* `Answer:`
C32_Witness ==
  /\ max_iterations = 1
  /\ call["run"].pc = "returned"
  /\ call["run"].ret = Fallback
  /\ call["run_async"].pc = "returned"
  /\ call["run_async"].ret = <<"4", "\n", "Action:", " ", "calc">>
  /\ llm_log["run_async"][1].text = <<"Answer:", " ", "4", "\n", "Action:", " ", "calc">>
  /\ IsComplete(state["a1"]) /\ IsComplete(state["a2"])
  /\ state["a2"]["response"] = call["run_async"].ret

\* the step is a call of run on an agent that has run before
RunCalledAgain ==
  /\ call["run"].pc \in {"returned", "raised"}
  /\ call'["run"].nth = call["run"].nth + 1

\* C33: reset changes the loop state only and leaves the transcript as it
\* is: when run is called on an agent that has run before, the state
\* starts afresh, the turns of the earlier runs stay in the transcript, the
\* run appends its turns after them, and its first model call is given the
\* most recent of the earlier turns before its own system and user turn.
C33_ResetKeepsTranscript ==
  [][RunCalledAgain =>
       LET before == memory["a1"]
           sent == call'["run"].messages
           old == Len(sent) - 2
       IN  /\ ~IsComplete(state'["a1"])
           /\ DOMAIN state'["a1"] \subseteq {"is_complete", "input", "current_step"}
           /\ state'["a1"]["input"] = call'["run"].goal
           /\ IsPrefix(before, memory'["a1"])
           /\ RoleContent(AppendedBy("a1"))
                = <<<<"system", CreateReactPrompt(tools)>>, <<"user", call'["run"].goal>>>>
           /\ call'["run"].pc = "awaiting_llm" =>
                /\ old = (IF Len(before) < 8 THEN Len(before) ELSE 8)
                /\ \A i \in 1..old :
                     sent[i].content = before[Len(before) - old + i].content
    ]_vars

\* the first model call of a second run, made after the registry was
\* changed: the four turns of the first run are submitted before the two
\* of this run, the system prompt of the first run among them
C33_Witness ==
  /\ call["run"].nth = 2
  /\ call["run"].pc = "awaiting_llm"
  /\ call["run"].iterations = 1
  /\ call["run"].base = 4
  /\ Len(earlier) = 1
  /\ earlier[1].reg # call["run"].reg
  /\ Len(call["run"].messages) = 6
  /\ [i \in 1..4 |-> call["run"].messages[i].content]
       = [i \in 1..4 |-> earlier[1].turns[i][2]]
  /\ call["run"].messages[1].content = CreateReactPrompt(earlier[1].reg)
  /\ call["run"].messages[5].content = CreateReactPrompt(call["run"].reg)
  /\ call["run"].messages[5].content # call["run"].messages[1].content
  /\ "response" \notin DOMAIN state["a1"]
  /\ "response" \in DOMAIN earlier[1].state

====
